---- MODULE Spec2Model ----
(***************************************************************************)
(* ObservabilityUrlResolver                                                *)
(* (packages/openchoreo-client-node/src/observability-url-resolver.ts).    *)
(*                                                                         *)
(* The resolver walks Environment -> DataPlane/ClusterDataPlane ->         *)
(* ObservabilityPlane/ClusterObservabilityPlane (or Project -> BuildPlane/ *)
(* ClusterBuildPlane -> ...) through the OpenChoreo API and caches the     *)
(* resulting URL pair with a TTL.  Each async method is cut at its awaits: *)
(* one action per synchronous stretch of code, and one action (Respond)    *)
(* for the backing API answering a request in flight.                      *)
(***************************************************************************)
EXTENDS Integers, Sequences, FiniteSets, TLC

VARIABLES
    options,      \* the options the resolver was constructed with
    cacheTtlMs,   \* this.cacheTtlMs
    cache,        \* this.cache : Map<string, CacheEntry>
    now,          \* Date.now()
    backing,      \* the resources held by the OpenChoreo API, as far as observed
    epoch,        \* number of changes made to the backing resources so far
    events,       \* number of clock steps, faults and changes so far
    calls,        \* number of resolver calls made so far
    proc,         \* per caller: the position and locals of its resolver call
    svc,          \* per caller: the request it has made to a consumer service
    app           \* the frontend: its fetch API and its cache of observer URLs

vars ==
    <<options, cacheTtlMs, cache, now, backing, epoch, events, calls, proc, svc,
      app>>

---------------------------------------------------------------------------
(* Bounds of the model *)

MaxCalls == 2      \* resolver calls in a run
MaxEvents == 1     \* clock steps, transport faults and resource changes in a run

(* Program constants *)

DEFAULT_PLANE_NAME == "default"
DEFAULT_CACHE_TTL_MS == 5 * 60 * 1000

(* One clock step: the default TTL *)
TickMs == DEFAULT_CACHE_TTL_MS

---------------------------------------------------------------------------
(* Values *)

Undefined == "undefined"          \* an absent string-valued field
NoRef == [absent |-> TRUE]        \* an absent reference object
None == [none |-> TRUE]           \* no request / response / outcome / entry

Procs == {"p1", "p2"}
Callers == {"p1"}                 \* the callers of the sequential specification
Namespaces == {"org-1"}
EnvNames == {"dev"}
ProjectNames == {"shop"}
Tokens == {"tok-a", "tok-x"}
RejectedTokens == {"tok-x"}       \* credentials the backing API refuses

Ref(k, n) == [kind |-> k, name |-> n]

\* the references a resource may carry: absent, of either allowed kind, of a
\* kind that is not allowed, without a kind, without a name
DataPlaneRefs ==
    {NoRef, Ref("DataPlane", "primary"), Ref("ClusterDataPlane", "primary"),
     Ref("FooPlane", "primary"), Ref(Undefined, "primary"),
     Ref("DataPlane", Undefined)}
BuildPlaneRefs ==
    {NoRef, Ref("BuildPlane", "shared"), Ref("ClusterBuildPlane", "shared"),
     Ref("FooPlane", "shared"), Ref(Undefined, "shared"),
     Ref("BuildPlane", Undefined)}
ObservabilityPlaneRefs ==
    {NoRef, Ref("ObservabilityPlane", "obs-1"),
     Ref("ClusterObservabilityPlane", "obs-1"), Ref("FooPlane", "obs-1"),
     Ref(Undefined, "obs-1"), Ref("ObservabilityPlane", Undefined)}

Missing == [missing |-> TRUE]     \* the resource does not exist

EnvironmentValues == {Missing} \cup {[dataPlaneRef |-> r] : r \in DataPlaneRefs}
ProjectValues == {Missing} \cup {[buildPlaneRef |-> r] : r \in BuildPlaneRefs}
PlaneValues ==
    {Missing} \cup {[observabilityPlaneRef |-> r] : r \in ObservabilityPlaneRefs}
ObsValues ==
    {Missing,
     [observerURL |-> Undefined, rcaAgentURL |-> Undefined],
     [observerURL |-> "https://observer.example.com", rcaAgentURL |-> Undefined],
     [observerURL |-> "https://observer.example.com",
      rcaAgentURL |-> "https://rca.example.com"]}

(* A request is the path of a GET: the resource collection, the namespace  *)
(* (Undefined for cluster-scoped collections) and the resource name.       *)
Req(c, ns, n) == [coll |-> c, ns |-> ns, name |-> n]

ValuesOf(coll) ==
    CASE coll = "environments" -> EnvironmentValues
      [] coll = "projects" -> ProjectValues
      [] coll \in {"dataplanes", "clusterdataplanes",
                   "buildplanes", "clusterbuildplanes"} -> PlaneValues
      [] OTHER -> ObsValues

---------------------------------------------------------------------------
(* Responses of client.GET *)

Response(st, text, d) ==
    [rejected |-> FALSE, ok |-> (st >= 200 /\ st < 300), status |-> st,
     statusText |-> text, data |-> d, error |-> None]
\* the fetch itself failed (network failure, timeout, cancellation): the
\* await throws
Rejection ==
    [rejected |-> TRUE, ok |-> FALSE, status |-> 0, statusText |-> "",
     data |-> None, error |-> [message |-> "fetch failed"]]

\* what the API answers for a resource that holds value v
Answer(v) ==
    IF v = Missing THEN Response(404, "Not Found", None)
    ELSE Response(200, "OK", [spec |-> v])

\* variant: a 404 is not taken for a failure
Failed_Except404(resp) == ~resp.ok /\ resp.status # 404

\* variant: a resource that declares no observerURL is taken for a failure
Failed_WithoutObserverUrl(resp) ==
    \/ ~resp.ok
    \/ /\ resp.data # None
       /\ "observerURL" \in DOMAIN resp.data.spec
       /\ resp.data.spec.observerURL = Undefined

\* `error || !response.ok`
Failed(resp) == ~resp.ok

\* `(data as any)?.spec?.<field>` for a reference field and for a URL field:
\* undefined when the response carries no data
RefOf(resp, field) == IF resp.data = None THEN NoRef ELSE resp.data.spec[field]
UrlOf(resp, field) == IF resp.data = None THEN Undefined ELSE resp.data.spec[field]

---------------------------------------------------------------------------
(* The cache: getFromCache / putInCache *)

\* variant: cache.clear() for cache.delete(key)
MapDelete_Clear(m, key) == [k \in {} |-> m[k]]

\* the Map after cache.delete(key)
MapDelete(m, key) == [k \in (DOMAIN m) \ {key} |-> m[k]]
\* the Map after cache.set(key, v)
MapSet(m, key, v) == [k \in (DOMAIN m) \cup {key} |-> IF k = key THEN v ELSE m[k]]

\* variants of the expiry test: the comparison reversed, and `<=` for `<`
CacheHit_Reversed(c, key, t) == key \in DOMAIN c /\ t > c[key].expiresAt
CacheHit_Inclusive(c, key, t) == key \in DOMAIN c /\ t <= c[key].expiresAt

\* `entry && Date.now() < entry.expiresAt`
CacheHit(c, key, t) == key \in DOMAIN c /\ t < c[key].expiresAt

\* variant: an entry without observerUrl is not served
getFromCache_OnlyConfigured(c, key, t) ==
    IF CacheHit(c, key, t) /\ c[key].result.observerUrl # Undefined
    THEN c[key].result ELSE None

\* getFromCache(key): the value returned ...
getFromCache(c, key, t) == IF CacheHit(c, key, t) THEN c[key].result ELSE None
\* ... and the cache it leaves (an expired entry is deleted)
CacheAfterGet(c, key, t) ==
    IF key \in DOMAIN c /\ ~CacheHit(c, key, t) THEN MapDelete(c, key) ELSE c

\* variant: an entry already there is kept
putInCache_KeepingFirst(c, key, result, t, ttl) ==
    IF key \in DOMAIN c THEN c
    ELSE MapSet(c, key, [result |-> result, expiresAt |-> t + ttl])

\* putInCache(key, result)
putInCache(c, key, result, t, ttl) ==
    MapSet(c, key, [result |-> result, expiresAt |-> t + ttl])

\* the constructor: `options.cacheTtlMs ?? DEFAULT_CACHE_TTL_MS`
CacheTtlOptions == {[baseUrl |-> "http://api"],
                    [baseUrl |-> "http://api", cacheTtlMs |-> 0]}
Constructor(opts) ==
    IF "cacheTtlMs" \in DOMAIN opts THEN opts.cacheTtlMs
    ELSE DEFAULT_CACHE_TTL_MS

\* variant: the key without its prefix
EnvCacheKey_Bare(namespaceName, envName) == namespaceName \o "/" \o envName

EnvCacheKey(namespaceName, envName) == "env:" \o namespaceName \o "/" \o envName
BuildCacheKey(namespaceName, projectName) ==
    "build:" \o namespaceName \o "/" \o projectName

---------------------------------------------------------------------------
(* A caller's resolver call *)

Idle ==
    [pc |-> "idle", op |-> Undefined, namespaceName |-> Undefined,
     name |-> Undefined, token |-> Undefined, cacheKey |-> Undefined,
     buildPlaneRef |-> None, req |-> None, resp |-> None,
     outcome |-> None,
     \* bookkeeping of the call, not read by the code modelled:
     seq |-> 0,           \* the ordinal of the call among all calls
     prev |-> None,       \* how the caller's previous call ended
     lookups |-> <<>>,    \* the requests issued so far
     hit |-> FALSE,       \* answered from the cache
     evicted |-> FALSE,   \* getFromCache deleted an expired entry
     faulted |-> FALSE,   \* one of its requests failed in transport
     startEpoch |-> 0,    \* the number of resource changes when it began
     doneNow |-> 0]       \* the time it completed

\* `await client.GET(path, ...)`: the request goes out, the method suspends
Issue(pr, at, r) ==
    [pr EXCEPT !.pc = at, !.req = r, !.resp = None, !.lookups = Append(@, r)]
\* `throw err` (or an await that throws): the promise rejects with err
Throw(pr, err) ==
    [pr EXCEPT !.pc = "done", !.req = None, !.resp = None,
               !.buildPlaneRef = None,
               !.outcome = [threw |-> TRUE, value |-> err]]
\* `return result`
Return(pr, result) ==
    [pr EXCEPT !.pc = "done", !.req = None, !.resp = None,
               !.buildPlaneRef = None,
               !.outcome = [threw |-> FALSE, value |-> result]]

\* variant: the message does not say what was being fetched
FailedToGet_Anonymous(what, name, resp) ==
    [message |-> "Failed to get resource '" \o name \o "': "
                 \o ToString(resp.status) \o " " \o resp.statusText]

FailedToGet(what, name, resp) ==
    [message |-> "Failed to get " \o what \o " '" \o name \o "': "
                 \o ToString(resp.status) \o " " \o resp.statusText]
Unsupported(what, kind) ==
    [message |-> "Unsupported " \o what \o " kind '" \o kind \o "'"]

\* variant: the outcome of a call is stored whether it returned or threw
Commit_CachingOutcome(p, pr, c) ==
    /\ proc' = [proc EXCEPT ![p] = IF pr.pc = "done"
                                   THEN [pr EXCEPT !.doneNow = now] ELSE pr]
    /\ cache' = IF pr.pc = "done" /\ ~pr.hit
                THEN putInCache(c, pr.cacheKey, pr.outcome.value, now, cacheTtlMs)
                ELSE c
    /\ UNCHANGED <<options, cacheTtlMs, now, backing, epoch, events, app>>

\* the state a step of caller p leaves: its call record and the cache
Commit(p, pr, c) ==
    /\ proc' = [proc EXCEPT ![p] = IF pr.pc = "done"
                                   THEN [pr EXCEPT !.doneNow = now] ELSE pr]
    /\ cache' = c
    /\ UNCHANGED <<options, cacheTtlMs, now, backing, epoch, events, app>>

---------------------------------------------------------------------------
(* The decisions of the chain walk, as the code takes them *)

Get(at, r) == [do |-> "get", at |-> at, req |-> r, err |-> None]
Fail(err) == [do |-> "throw", at |-> "done", req |-> None, err |-> err]
Apply(pr, step) ==
    IF step.do = "get" THEN Issue(pr, step.at, step.req) ELSE Throw(pr, step.err)

\* variant: every kind but ClusterDataPlane is taken for DataPlane
DataPlaneHop_Lenient(namespaceName, dataPlaneRef) ==
    IF dataPlaneRef # NoRef /\ dataPlaneRef.kind = "ClusterDataPlane"
    THEN Get("clusterdataplane",
             Req("clusterdataplanes", Undefined, dataPlaneRef.name))
    ELSE Get("dataplane",
             Req("dataplanes", namespaceName,
                 IF dataPlaneRef = NoRef \/ dataPlaneRef.name = Undefined
                 THEN DEFAULT_PLANE_NAME ELSE dataPlaneRef.name))

\* variant: the two kinds are taken for each other
DataPlaneHop_Swapped(namespaceName, dataPlaneRef) ==
    IF dataPlaneRef = NoRef
    THEN Get("dataplane", Req("dataplanes", namespaceName, DEFAULT_PLANE_NAME))
    ELSE IF dataPlaneRef.kind = "ClusterDataPlane"
    THEN Get("dataplane", Req("dataplanes", namespaceName, dataPlaneRef.name))
    ELSE IF dataPlaneRef.kind = "DataPlane"
    THEN Get("clusterdataplane",
             Req("clusterdataplanes", Undefined, dataPlaneRef.name))
    ELSE Fail(Unsupported("dataPlaneRef", dataPlaneRef.kind))

\* resolveForEnvironment, step 2: which data plane is fetched
DataPlaneHop(namespaceName, dataPlaneRef) ==
    IF dataPlaneRef = NoRef
    THEN Get("dataplane", Req("dataplanes", namespaceName, DEFAULT_PLANE_NAME))
    ELSE IF dataPlaneRef.kind = "DataPlane"
    THEN Get("dataplane",
             Req("dataplanes", namespaceName,
                 IF dataPlaneRef.name = Undefined THEN DEFAULT_PLANE_NAME
                 ELSE dataPlaneRef.name))
    ELSE IF dataPlaneRef.kind = "ClusterDataPlane"
    THEN Get("clusterdataplane",
             Req("clusterdataplanes", Undefined, dataPlaneRef.name))
    ELSE Fail(Unsupported("dataPlaneRef", dataPlaneRef.kind))

\* resolveForBuild, step 2: which build plane is fetched
BuildPlaneHop(namespaceName, buildPlaneRef) ==
    IF buildPlaneRef = NoRef
    THEN Get("buildplane", Req("buildplanes", namespaceName, DEFAULT_PLANE_NAME))
    ELSE IF buildPlaneRef.kind = "BuildPlane"
    THEN Get("buildplane",
             Req("buildplanes", namespaceName,
                 IF buildPlaneRef.name = Undefined THEN DEFAULT_PLANE_NAME
                 ELSE buildPlaneRef.name))
    ELSE IF buildPlaneRef.kind = "ClusterBuildPlane"
    THEN Get("clusterbuildplane",
             Req("clusterbuildplanes", Undefined, buildPlaneRef.name))
    ELSE Fail(Unsupported("buildPlaneRef", buildPlaneRef.kind))

\* variant: `bpResp.status === 404`, whatever the project declared
FallsBackToCluster_Always(bpResp, buildPlaneRef) == bpResp.status = 404

\* variant: the status of the failed response is not looked at
FallsBackToCluster_AnyFailure(bpResp, buildPlaneRef) == buildPlaneRef = NoRef

\* variant: the test of buildPlaneRef inverted
FallsBackToCluster_Explicit(bpResp, buildPlaneRef) ==
    bpResp.status = 404 /\ buildPlaneRef # NoRef

\* `bpResp.status === 404 && !buildPlaneRef`
FallsBackToCluster(bpResp, buildPlaneRef) ==
    bpResp.status = 404 /\ buildPlaneRef = NoRef

\* variants: the default of the other scope
NamespacedPlaneObsRef_Cluster(ref) ==
    IF ref = NoRef THEN Ref("ClusterObservabilityPlane", DEFAULT_PLANE_NAME)
    ELSE ref
ClusterPlaneObsRef_Namespaced(ref) ==
    IF ref = NoRef THEN Ref("ObservabilityPlane", DEFAULT_PLANE_NAME) ELSE ref

\* `ref ?? { kind: 'ObservabilityPlane', name: DEFAULT_PLANE_NAME }`
NamespacedPlaneObsRef(ref) ==
    IF ref = NoRef THEN Ref("ObservabilityPlane", DEFAULT_PLANE_NAME) ELSE ref
\* `ref ?? { kind: 'ClusterObservabilityPlane', name: DEFAULT_PLANE_NAME }`
ClusterPlaneObsRef(ref) ==
    IF ref = NoRef THEN Ref("ClusterObservabilityPlane", DEFAULT_PLANE_NAME)
    ELSE ref

\* getObservabilityPlaneUrls up to its await
ObservabilityPlaneHop(namespaceName, ref) ==
    IF ref.kind = "ObservabilityPlane"
    THEN Get("observabilityplane",
             Req("observabilityplanes", namespaceName, ref.name))
    ELSE IF ref.kind = "ClusterObservabilityPlane"
    THEN Get("clusterobservabilityplane",
             Req("clusterobservabilityplanes", Undefined, ref.name))
    ELSE Fail(Unsupported("observabilityPlaneRef", ref.kind))

\* variant: the two URL fields are taken for each other
UrlsResult_Swapped(resp) ==
    [observerUrl |-> UrlOf(resp, "rcaAgentURL"),
     rcaAgentUrl |-> UrlOf(resp, "observerURL")]

\* the object getObservabilityPlaneUrls returns
UrlsResult(resp) ==
    [observerUrl |-> UrlOf(resp, "observerURL"),
     rcaAgentUrl |-> UrlOf(resp, "rcaAgentURL")]

---------------------------------------------------------------------------
(* Actions *)

\* variant: one resolution at a time
Startable_Exclusive(p, cacheKey) ==
    /\ \A q \in Procs \ {p} : proc[q].pc \in {"idle", "done"}
    /\ \/ proc[p].pc = "idle"
       \/ proc[p].pc = "done" /\ proc[p].cacheKey = cacheKey

\* a caller makes its calls one after another, all for the same context
Startable(p, cacheKey) ==
    \/ proc[p].pc = "idle"
    \/ proc[p].pc = "done" /\ proc[p].cacheKey = cacheKey

\* the outcome of the caller's previous call, kept when that call suffered
\* no transport fault and no backing resource has changed since it began
Previous(pr) ==
    IF pr.pc = "done" /\ ~pr.faulted /\ pr.startEpoch = epoch THEN pr.outcome
    ELSE None

\* the part of either public method up to its first await; prev is what the
\* caller keeps of its previous call
EnterAfter(p, prev, op, namespaceName, name, token, cacheKey, at, firstReq) ==
    LET cached == getFromCache(cache, cacheKey, now)
        c1 == CacheAfterGet(cache, cacheKey, now)
        pr0 == [Idle EXCEPT !.op = op, !.namespaceName = namespaceName,
                            !.name = name, !.token = token,
                            !.cacheKey = cacheKey, !.startEpoch = epoch,
                            !.seq = calls + 1,
                            !.prev = prev,
                            !.evicted = (c1 # cache)]
    IN  /\ Startable(p, cacheKey)
        /\ calls' = calls + 1
        /\ IF cached # None
           THEN Commit(p, Return([pr0 EXCEPT !.hit = TRUE], cached), c1)
           ELSE Commit(p, Issue(pr0, at, firstReq), c1)

Enter(p, op, namespaceName, name, token, cacheKey, at, firstReq) ==
    EnterAfter(p, None, op, namespaceName, name, token, cacheKey, at, firstReq)

ResolveForEnvironment(p) ==
    /\ calls < MaxCalls
    /\ svc' = svc
    /\ \E namespaceName \in Namespaces, envName \in EnvNames, token \in Tokens :
          Enter(p, "env", namespaceName, envName, token,
                EnvCacheKey(namespaceName, envName), "environment",
                Req("environments", namespaceName, envName))

ResolveForBuild(p) ==
    /\ calls < MaxCalls
    /\ svc' = svc
    /\ \E namespaceName \in Namespaces, projectName \in ProjectNames,
          token \in Tokens :
          Enter(p, "build", namespaceName, projectName, token,
                BuildCacheKey(namespaceName, projectName), "project",
                Req("projects", namespaceName, projectName))

\* the caller repeats its previous call, with identical arguments, and keeps
\* the outcome of that call to compare
CallAgain(p) ==
    /\ calls = MaxCalls
    /\ svc' = svc
    /\ proc[p].pc = "done"
    /\ LET pr == proc[p]
       IN  EnterAfter(p, Previous(pr),
                 pr.op, pr.namespaceName, pr.name, pr.token, pr.cacheKey,
                 IF pr.op = "env" THEN "environment" ELSE "project",
                 Req(IF pr.op = "env" THEN "environments" ELSE "projects",
                     pr.namespaceName, pr.name))

\* variant: a rejected await resumes nothing
Arrived_UnlessRejected(p, at) ==
    proc[p].pc = at /\ proc[p].resp # None /\ ~proc[p].resp.rejected

Arrived(p, at) == proc[p].pc = at /\ proc[p].resp # None

\* resolveForEnvironment after `await client.GET(.../environments/{envName})`
OnEnvironment(p) ==
    /\ Arrived(p, "environment")
    /\ calls' = calls /\ svc' = svc
    /\ LET pr == proc[p]
           resp == pr.resp
       IN  Commit(p,
                  IF resp.rejected THEN Throw(pr, resp.error)
                  ELSE IF Failed(resp)
                  THEN Throw(pr, FailedToGet("environment", pr.name, resp))
                  ELSE Apply(pr, DataPlaneHop(pr.namespaceName,
                                              RefOf(resp, "dataPlaneRef"))),
                  cache)

\* resolveForEnvironment after `await client.GET(.../dataplanes/{dpName})`
OnDataPlane(p) ==
    /\ Arrived(p, "dataplane")
    /\ calls' = calls /\ svc' = svc
    /\ LET pr == proc[p]
           resp == pr.resp
       IN  Commit(p,
                  IF resp.rejected THEN Throw(pr, resp.error)
                  ELSE IF Failed(resp)
                  THEN Throw(pr, FailedToGet("DataPlane", pr.req.name, resp))
                  ELSE Apply(pr, ObservabilityPlaneHop(pr.namespaceName,
                           NamespacedPlaneObsRef(RefOf(resp, "observabilityPlaneRef")))),
                  cache)

\* resolveForEnvironment after `await client.GET(/clusterdataplanes/{cdpName})`
OnClusterDataPlane(p) ==
    /\ Arrived(p, "clusterdataplane")
    /\ calls' = calls /\ svc' = svc
    /\ LET pr == proc[p]
           resp == pr.resp
       IN  Commit(p,
                  IF resp.rejected THEN Throw(pr, resp.error)
                  ELSE IF Failed(resp)
                  THEN Throw(pr, FailedToGet("ClusterDataPlane", pr.req.name, resp))
                  ELSE Apply(pr, ObservabilityPlaneHop(pr.namespaceName,
                           ClusterPlaneObsRef(RefOf(resp, "observabilityPlaneRef")))),
                  cache)

\* resolveForBuild after `await client.GET(.../projects/{projectName})`
OnProject(p) ==
    /\ Arrived(p, "project")
    /\ calls' = calls /\ svc' = svc
    /\ LET pr == proc[p]
           resp == pr.resp
       IN  Commit(p,
                  IF resp.rejected THEN Throw(pr, resp.error)
                  ELSE IF Failed(resp)
                  THEN Throw(pr, FailedToGet("project", pr.name, resp))
                  ELSE Apply([pr EXCEPT !.buildPlaneRef = RefOf(resp, "buildPlaneRef")],
                             BuildPlaneHop(pr.namespaceName,
                                           RefOf(resp, "buildPlaneRef"))),
                  cache)

\* resolveForBuild after `await client.GET(.../buildplanes/{buildPlaneName})`
OnBuildPlane(p) ==
    /\ Arrived(p, "buildplane")
    /\ calls' = calls /\ svc' = svc
    /\ LET pr == proc[p]
           resp == pr.resp
       IN  Commit(p,
                  IF resp.rejected THEN Throw(pr, resp.error)
                  ELSE IF Failed(resp)
                  THEN IF FallsBackToCluster(resp, pr.buildPlaneRef)
                       THEN Issue(pr, "clusterbuildplane",
                                  Req("clusterbuildplanes", Undefined,
                                      DEFAULT_PLANE_NAME))
                       ELSE Throw(pr, FailedToGet("BuildPlane", pr.req.name, resp))
                  ELSE Apply(pr, ObservabilityPlaneHop(pr.namespaceName,
                           NamespacedPlaneObsRef(RefOf(resp, "observabilityPlaneRef")))),
                  cache)

\* resolveForBuildViaClusterBuildPlane after its `await client.GET(...)`
OnClusterBuildPlane(p) ==
    /\ Arrived(p, "clusterbuildplane")
    /\ calls' = calls /\ svc' = svc
    /\ LET pr == proc[p]
           resp == pr.resp
       IN  Commit(p,
                  IF resp.rejected THEN Throw(pr, resp.error)
                  ELSE IF Failed(resp)
                  THEN Throw(pr, FailedToGet("ClusterBuildPlane", pr.req.name, resp))
                  ELSE Apply(pr, ObservabilityPlaneHop(pr.namespaceName,
                           ClusterPlaneObsRef(RefOf(resp, "observabilityPlaneRef")))),
                  cache)

\* getObservabilityPlaneUrls after its await, and the caller's
\* `putInCache(cacheKey, result); return result`
OnObservabilityPlane(p) ==
    /\ \/ Arrived(p, "observabilityplane")
       \/ Arrived(p, "clusterobservabilityplane")
    /\ calls' = calls /\ svc' = svc
    /\ LET pr == proc[p]
           resp == pr.resp
           what == IF pr.pc = "observabilityplane" THEN "ObservabilityPlane"
                   ELSE "ClusterObservabilityPlane"
       IN  IF resp.rejected THEN Commit(p, Throw(pr, resp.error), cache)
           ELSE IF Failed(resp)
           THEN Commit(p, Throw(pr, FailedToGet(what, pr.req.name, resp)), cache)
           ELSE Commit(p, Return(pr, UrlsResult(resp)),
                       putInCache(cache, pr.cacheKey, UrlsResult(resp),
                                  now, cacheTtlMs))

---------------------------------------------------------------------------
(* The environment of the resolver *)

InFlight(p) == proc[p].req # None /\ proc[p].resp = None

Deliver(p, resp) == proc' = [proc EXCEPT ![p].resp = resp]

\* the OpenChoreo API answers the request of caller p from the resources it
\* holds; a resource nobody has read yet holds any value of its kind
Respond(p) ==
    /\ InFlight(p)
    /\ LET r == proc[p].req
       IN  IF proc[p].token \in RejectedTokens
           THEN /\ Deliver(p, Response(401, "Unauthorized", None))
                /\ UNCHANGED backing
           ELSE IF r.name = Undefined
           THEN \* a path whose name parameter is missing names no resource
                /\ Deliver(p, Response(404, "Not Found", None))
                /\ UNCHANGED backing
           ELSE IF r \in DOMAIN backing
           THEN /\ Deliver(p, Answer(backing[r]))
                /\ UNCHANGED backing
           ELSE \E v \in ValuesOf(r.coll) :
                   /\ Deliver(p, Answer(v))
                   /\ backing' = MapSet(backing, r, v)
    /\ UNCHANGED <<options, cacheTtlMs, cache, now, epoch, events, calls, svc,
                 app>>

\* the request of caller p fails in transport: an error response that is not
\* a 404, or a fetch that throws
TransportFault(p) ==
    /\ InFlight(p)
    /\ events < MaxEvents
    /\ events' = events + 1
    /\ \E resp \in {Response(500, "Internal Server Error", None), Rejection} :
          proc' = [proc EXCEPT ![p].resp = resp, ![p].faulted = TRUE]
    /\ UNCHANGED <<options, cacheTtlMs, cache, now, backing, epoch, calls, svc,
                 app>>

\* somebody rewrites a backing resource: it holds any value of its kind
\* again, fixed by the next read
Mutate ==
    /\ events < MaxEvents
    /\ events' = events + 1
    /\ epoch' = epoch + 1
    /\ \E r \in DOMAIN backing : backing' = MapDelete(backing, r)
    /\ UNCHANGED <<options, cacheTtlMs, cache, now, calls, proc, svc, app>>

\* the clock advances
Tick ==
    /\ events < MaxEvents
    /\ events' = events + 1
    /\ now' = now + TickMs
    /\ UNCHANGED <<options, cacheTtlMs, cache, backing, epoch, calls, proc, svc,
                 app>>

EmptyMap == [k \in {} |-> None]

\* a caller that has made no request to a consumer service
NoRequest ==
    [pc |-> "idle", service |-> Undefined, subject |-> Undefined,
     outcome |-> None,
     \* bookkeeping of the request, not read by the code modelled:
     invoked |-> <<>>,      \* the service methods called for the request
     resolverCalls |-> 0,   \* the resolver calls made for the request
     clients |-> 0,         \* the observer clients created for it
     sent |-> <<>>]         \* the observer requests sent for it

\* `configApi.getOptionalBoolean('openchoreo.features.auth.enabled')`
AuthConfigs == {Undefined, "true", "false"}

\* a caller that has made no call to the frontend's fetch API
NoFetch ==
    [pc |-> "idle", init |-> EmptyMap, headers |-> EmptyMap,
     isDirect |-> FALSE, outgoing |-> None,
     \* bookkeeping of the call, not read by the code modelled:
     asked |-> <<>>,        \* the token providers asked, in order
     backstageToken |-> None,   \* what getCredentials gave
     idpToken |-> None]         \* what getAccessToken gave

\* a caller that has made no call to ObserverUrlCache.resolveUrls
NoLookup ==
    [pc |-> "idle", cacheKey |-> Undefined, outcome |-> None,
     \* bookkeeping of the call, not read by the code modelled:
     requests |-> 0,        \* the backend requests made for the call
     response |-> None,     \* the backend's response to it
     before |-> EmptyMap,   \* the cache when the call began
     startNow |-> 0]        \* the time the call began

\* the frontend before anything was asked of it
NoApp ==
    [authConfig |-> Undefined,
     fetch |-> [p \in Procs |-> NoFetch],
     urlCache |-> EmptyMap,
     urls |-> [p \in Procs |-> NoLookup]]

\* the backend after construction
InitBackend ==
    /\ options \in CacheTtlOptions
    /\ cacheTtlMs = Constructor(options)
    /\ cache = EmptyMap
    /\ now = 0
    /\ backing = EmptyMap
    /\ epoch = 0
    /\ events = 0
    /\ calls = 0
    /\ proc = [p \in Procs |-> Idle]
    /\ svc = [p \in Procs |-> NoRequest]

Init ==
    /\ InitBackend
    /\ app = NoApp

Next ==
    \/ \E p \in Callers : ResolveForEnvironment(p)
    \/ \E p \in Callers : ResolveForBuild(p)
    \/ \E p \in Procs : OnEnvironment(p)
    \/ \E p \in Procs : OnDataPlane(p)
    \/ \E p \in Procs : OnClusterDataPlane(p)
    \/ \E p \in Procs : OnProject(p)
    \/ \E p \in Procs : OnBuildPlane(p)
    \/ \E p \in Procs : OnClusterBuildPlane(p)
    \/ \E p \in Procs : OnObservabilityPlane(p)
    \/ \E p \in Procs : Respond(p)
    \/ \E p \in Procs : TransportFault(p)
    \/ Mutate
    \/ Tick

Spec == Init /\ [][Next]_vars

\* the same, with one more call that repeats the one before it
NextRepeat ==
    \/ Next
    \/ \E p \in Callers : CallAgain(p)

SpecRepeat == Init /\ [][NextRepeat]_vars

\* the continuation of the call of p after the await it is suspended on
Continue(p) ==
    \/ OnEnvironment(p) \/ OnDataPlane(p) \/ OnClusterDataPlane(p)
    \/ OnProject(p) \/ OnBuildPlane(p) \/ OnClusterBuildPlane(p)
    \/ OnObservabilityPlane(p)

\* every lookup issued completes, with a response or a rejection, and the
\* event loop runs the continuation of an await that has settled
SpecLive ==
    /\ Spec
    /\ \A p \in Procs : WF_vars(Respond(p) \/ TransportFault(p))
    /\ \A p \in Procs : WF_vars(Continue(p))

\* several callers at once: their calls interleave at the awaits.  The
\* callers are named in the order of their first calls.
InOrder(p) == p = "p1" \/ proc["p1"].pc # "idle"
\* ... and present credentials the API accepts
Accepted(pr) == pr.token \notin RejectedTokens
ConcurrentResolveForEnvironment(p) ==
    InOrder(p) /\ ResolveForEnvironment(p) /\ Accepted(proc'[p])
ConcurrentResolveForBuild(p) ==
    InOrder(p) /\ ResolveForBuild(p) /\ Accepted(proc'[p])

\* the resources of the concurrent specification: every reference is absent
\* or names a plane of an allowed kind
AllowedKinds ==
    {"DataPlane", "ClusterDataPlane", "BuildPlane", "ClusterBuildPlane",
     "ObservabilityPlane", "ClusterObservabilityPlane"}
PlainRef(ref) ==
    ref = NoRef \/ (ref.kind \in AllowedKinds /\ ref.name # Undefined)
PlainResources(b) ==
    \A r \in DOMAIN b :
       \/ b[r] = Missing
       \/ r.coll = "environments" /\ PlainRef(b[r].dataPlaneRef)
       \/ r.coll = "projects" /\ PlainRef(b[r].buildPlaneRef)
       \/ /\ r.coll \in {"dataplanes", "clusterdataplanes",
                          "buildplanes", "clusterbuildplanes"}
          /\ PlainRef(b[r].observabilityPlaneRef)
       \/ r.coll \in {"observabilityplanes", "clusterobservabilityplanes"}
RespondPlain(p) == Respond(p) /\ PlainResources(backing')

NextConc ==
    \/ \E p \in Procs : ConcurrentResolveForEnvironment(p)
    \/ \E p \in Procs : ConcurrentResolveForBuild(p)
    \/ \E p \in Procs : CallAgain(p)
    \/ \E p \in Procs : OnEnvironment(p)
    \/ \E p \in Procs : OnDataPlane(p)
    \/ \E p \in Procs : OnClusterDataPlane(p)
    \/ \E p \in Procs : OnProject(p)
    \/ \E p \in Procs : OnBuildPlane(p)
    \/ \E p \in Procs : OnClusterBuildPlane(p)
    \/ \E p \in Procs : OnObservabilityPlane(p)
    \/ \E p \in Procs : RespondPlain(p)

SpecConc == Init /\ [][NextConc]_vars

\* somebody rewrites an observability plane
RewriteObservabilityPlane ==
    /\ Mutate
    /\ \E r \in DOMAIN backing \ DOMAIN backing' :
          r.coll \in {"observabilityplanes", "clusterobservabilityplanes"}

\* two callers resolving the same environment at once, while the clock
\* advances and the observability planes change
NextRace ==
    \/ \E p \in Procs : ConcurrentResolveForEnvironment(p)
    \/ \E p \in Procs : OnEnvironment(p)
    \/ \E p \in Procs : OnDataPlane(p)
    \/ \E p \in Procs : OnClusterDataPlane(p)
    \/ \E p \in Procs : OnObservabilityPlane(p)
    \/ \E p \in Procs : RespondPlain(p)
    \/ RewriteObservabilityPlane
    \/ Tick

SpecRace == Init /\ [][NextRace]_vars

\* somebody gives an observability plane that declared no URL an observerURL
DeclareObserverUrl ==
    /\ events < MaxEvents
    /\ events' = events + 1
    /\ epoch' = epoch + 1
    /\ \E r \in DOMAIN backing :
          /\ r.coll \in {"observabilityplanes", "clusterobservabilityplanes"}
          /\ backing[r] = [observerURL |-> Undefined, rcaAgentURL |-> Undefined]
          /\ backing' = MapSet(backing, r,
                [observerURL |-> "https://observer.example.com",
                 rcaAgentURL |-> Undefined])
    /\ UNCHANGED <<options, cacheTtlMs, cache, now, calls, proc, svc, app>>

\* the resolver while observability is being configured
NextDeclare ==
    \/ \E p \in Callers : ResolveForEnvironment(p)
    \/ \E p \in Callers : ResolveForBuild(p)
    \/ \E p \in Procs : OnEnvironment(p)
    \/ \E p \in Procs : OnDataPlane(p)
    \/ \E p \in Procs : OnClusterDataPlane(p)
    \/ \E p \in Procs : OnProject(p)
    \/ \E p \in Procs : OnBuildPlane(p)
    \/ \E p \in Procs : OnClusterBuildPlane(p)
    \/ \E p \in Procs : OnObservabilityPlane(p)
    \/ \E p \in Procs : Respond(p)
    \/ DeclareObserverUrl
    \/ Tick

SpecDeclare == Init /\ [][NextDeclare]_vars

---------------------------------------------------------------------------
(* The consumer services and the route GET /resolve-urls.  Each service    *)
(* class owns one resolver; a caller addresses one service class.          *)

ComponentNames == {"web"}

\* the methods of ObservabilityService that go through resolveObserverUrl
ObservabilityServiceMethods ==
    {"fetchRuntimeLogsByComponent", "fetchMetricsByComponent",
     "fetchTracesByProject"}
\* the methods that query the observer
FetchMethods ==
    {"fetchRuntimeLogs", "fetchBuildLogs"} \cup ObservabilityServiceMethods

\* the class a method belongs to, which owns the resolver it calls
OwnerOf(method) ==
    IF method = "fetchRuntimeLogs" THEN "RuntimeLogsInfoService"
    ELSE IF method = "fetchBuildLogs" THEN "BuildInfoService"
    ELSE "ObservabilityService"

\* `new ObservabilityNotConfiguredError(...)` of the method's class: each
\* class has its own message and is given its own argument
ObservabilityNotConfiguredError(method, namespaceName, componentName) ==
    [name |-> "ObservabilityNotConfiguredError",
     message |->
        IF method = "fetchRuntimeLogs"
        THEN "Runtime logs are not available for component " \o componentName
        ELSE IF method = "fetchBuildLogs"
        THEN "Build logs are not available for component " \o componentName
        ELSE "Observability is not configured for component " \o namespaceName]

\* `error instanceof ObservabilityNotConfiguredError`
IsNotConfiguredError(err) ==
    "name" \in DOMAIN err /\ err.name = "ObservabilityNotConfiguredError"

\* variant: any result counts as configured
ObserverUrlAbsent_Never(urls) == FALSE

\* `!observerUrl`
ObserverUrlAbsent(urls) == urls.observerUrl = Undefined

\* the observer endpoints a method posts to, in order
Endpoints(method) ==
    IF method = "fetchRuntimeLogs" THEN <<"/api/v1/logs/query">>
    ELSE IF method = "fetchBuildLogs" THEN <<"/api/logs/build/{buildId}">>
    ELSE IF method = "fetchRuntimeLogsByComponent"
    THEN <<"/api/v1/logs/query">>
    ELSE IF method = "fetchMetricsByComponent"
    THEN <<"/api/metrics/component/usage", "/api/metrics/component/http">>
    ELSE <<"/api/traces">>

\* the message of the error a method throws when the observer's answer to
\* its i-th request is an error
FetchFailure(method, i) ==
    [message |->
        IF method \in {"fetchRuntimeLogs", "fetchRuntimeLogsByComponent"}
        THEN "Failed to fetch runtime logs"
        ELSE IF method = "fetchBuildLogs" THEN "Failed to fetch build logs"
        ELSE IF method = "fetchTracesByProject" THEN "Failed to fetch traces"
        ELSE IF i = 1 THEN "Failed to fetch metrics"
        ELSE "Failed to fetch HTTP metrics"]

\* a request in progress, and how it ends
Begin(method, owner, subject) ==
    [NoRequest EXCEPT !.pc = "resolving", !.service = owner,
                      !.subject = subject @@ [method |-> method, oks |-> <<>>],
                      !.invoked = <<method>>,
                      !.resolverCalls = 1]
Finish(sr, threw, value) ==
    [sr EXCEPT !.pc = "done", !.outcome = [threw |-> threw, value |-> value]]

\* a caller may address a service when it has no request in progress, and
\* stays with the service class it addressed first
Addressable(p, owner) ==
    /\ svc[p].pc \in {"idle", "done"}
    /\ proc[p].pc \in {"idle", "done"}
    /\ svc[p].service \in {Undefined, owner}

\* `this.resolver.resolveForEnvironment(namespaceName, environmentName, token)`
CallResolveForEnvironment(p, namespaceName, environmentName, token) ==
    /\ calls < MaxCalls
    /\ Enter(p, "env", namespaceName, environmentName, token,
             EnvCacheKey(namespaceName, environmentName), "environment",
             Req("environments", namespaceName, environmentName))

\* `this.resolver.resolveForBuild(namespaceName, projectName, token)`
CallResolveForBuild(p, namespaceName, projectName, token) ==
    /\ calls < MaxCalls
    /\ Enter(p, "build", namespaceName, projectName, token,
             BuildCacheKey(namespaceName, projectName), "project",
             Req("projects", namespaceName, projectName))

ResolverUntouched ==
    UNCHANGED <<options, cacheTtlMs, cache, now, backing, epoch, events,
                calls, proc, app>>

\* a fetch method is called: it runs up to the resolver's first await
Fetch(p) ==
    \E method \in FetchMethods, namespaceName \in Namespaces,
       componentName \in ComponentNames, token \in Tokens :
       LET owner == OwnerOf(method)
           subject == [namespaceName |-> namespaceName,
                       componentName |-> componentName]
       IN  /\ Addressable(p, owner)
           /\ IF method = "fetchBuildLogs"
              THEN \E projectName \in ProjectNames :
                      /\ svc' = [svc EXCEPT ![p] = Begin(method, owner, subject)]
                      /\ CallResolveForBuild(p, namespaceName, projectName,
                                             token)
              ELSE \E environmentName \in
                         (IF method \in ObservabilityServiceMethods
                          THEN EnvNames \cup {Undefined} ELSE EnvNames) :
                      IF /\ method \in ObservabilityServiceMethods
                         /\ environmentName = Undefined
                      THEN \* resolveObserverUrl refuses before the resolver
                           /\ svc' = [svc EXCEPT ![p] =
                                 Finish([Begin(method, owner, subject)
                                           EXCEPT !.resolverCalls = 0],
                                        TRUE,
                                        [message |-> "Environment is required to resolve observer URL"])]
                           /\ ResolverUntouched
                      ELSE /\ svc' = [svc EXCEPT ![p] =
                                         Begin(method, owner, subject)]
                           /\ CallResolveForEnvironment(p, namespaceName,
                                                        environmentName, token)

\* what a fetch method does with the resolver's outcome o
AfterResolve(sr, o, hasRange) ==
    LET method == sr.subject.method
        created == [sr EXCEPT !.clients = @ + 1]
    IN  IF o.threw THEN Finish(sr, TRUE, o.value)
        ELSE IF ObserverUrlAbsent(o.value)
        THEN Finish(sr, TRUE,
                    ObservabilityNotConfiguredError(method,
                        sr.subject.namespaceName, sr.subject.componentName))
        ELSE IF method = "fetchTracesByProject" /\ ~hasRange
        THEN Finish(created, TRUE,
                    [message |-> "startTime and endTime are required to fetch traces"])
        ELSE [created EXCEPT !.pc = "querying",
                             !.sent = <<Endpoints(method)[1]>>]

\* the resolver's promise has settled: the fetch method resumes
Resolved(p) ==
    /\ svc[p].pc = "resolving"
    /\ svc[p].subject.method \in FetchMethods
    /\ proc[p].pc = "done"
    /\ \E hasRange \in BOOLEAN :
          svc' = [svc EXCEPT ![p] = AfterResolve(svc[p], proc[p].outcome,
                                                 hasRange)]
    /\ ResolverUntouched

\* the observer answers the request the method is suspended on; the metrics
\* method awaits both of its requests before it looks at either answer
ObserverAnswers(p) ==
    /\ svc[p].pc = "querying"
    /\ svc[p].subject.method \in FetchMethods
    /\ LET sr == svc[p]
           method == sr.subject.method
           n == Len(sr.sent)
       IN  \E ok \in BOOLEAN :
              LET oks == sr.subject.oks \o <<ok>>
              IN  svc' = [svc EXCEPT ![p] =
                     IF n < Len(Endpoints(method))
                     THEN [sr EXCEPT !.sent = Append(@, Endpoints(method)[n + 1]),
                                     !.subject.oks = oks]
                     ELSE IF \E i \in 1..Len(oks) : ~oks[i]
                     THEN Finish([sr EXCEPT !.subject.oks = oks], TRUE,
                             FetchFailure(method,
                                CHOOSE i \in 1..Len(oks) :
                                   ~oks[i] /\ \A j \in 1..(i - 1) : oks[j]))
                     ELSE Finish([sr EXCEPT !.subject.oks = oks], FALSE,
                                 [data |-> method])]
    /\ ResolverUntouched

\* an HTTP response of the router
Json(status, body) == [status |-> status, body |-> body]

\* ObservabilityService.resolveUrls: the resolver's outcome, as it is
ResolveUrlsOutcome(o) == o

\* `error instanceof Error ? error.message : fallback`
ErrorText(err, fallback) ==
    IF "message" \in DOMAIN err THEN err.message ELSE fallback

\* variant: every failure is a 500
RouterAnswer_NoNotFound(o) ==
    IF ~o.threw THEN Json(200, o.value)
    ELSE Json(500, [error |->
                      ErrorText(o.value, "Failed to resolve observer URLs")])

\* the response of GET /resolve-urls to the outcome o of resolveUrls
RouterAnswer(o) ==
    IF ~o.threw THEN Json(200, o.value)
    ELSE IF IsNotConfiguredError(o.value)
    THEN Json(404, [error |-> o.value.message])
    ELSE Json(500, [error |->
                      ErrorText(o.value, "Failed to resolve observer URLs")])

\* GET /resolve-urls arrives: the handler runs up to the resolver's first
\* await, or responds at once
GetResolveUrls(p) ==
    \E authEnabled \in BOOLEAN, hasCredentials \in BOOLEAN,
       namespaceName \in Namespaces \cup {Undefined},
       environmentName \in EnvNames \cup {Undefined}, token \in Tokens :
       LET owner == "ObservabilityService"
           subject == [namespaceName |-> namespaceName,
                       environmentName |-> environmentName,
                       authEnabled |-> authEnabled,
                       hasCredentials |-> hasCredentials]
           begun == Begin("resolveUrls", owner, subject)
           unresolved == [begun EXCEPT !.resolverCalls = 0, !.invoked = <<>>]
       IN  /\ Addressable(p, owner)
           /\ IF authEnabled /\ ~hasCredentials
              THEN \* `await httpAuth.credentials(req, ...)` throws
                   /\ svc' = [svc EXCEPT ![p] =
                         Finish(unresolved, FALSE,
                                Json(401, [error |-> "AuthenticationError"]))]
                   /\ ResolverUntouched
              ELSE IF namespaceName = Undefined \/ environmentName = Undefined
              THEN /\ svc' = [svc EXCEPT ![p] =
                         Finish(unresolved, FALSE,
                                Json(400, [error |-> "namespaceName and environmentName are required"]))]
                   /\ ResolverUntouched
              ELSE /\ svc' = [svc EXCEPT ![p] = begun]
                   /\ CallResolveForEnvironment(p, namespaceName,
                                                environmentName, token)

\* resolveUrls has settled: the handler responds
ResolveUrlsSettled(p) ==
    /\ svc[p].pc = "resolving"
    /\ svc[p].subject.method = "resolveUrls"
    /\ proc[p].pc = "done"
    /\ svc' = [svc EXCEPT ![p] =
                 Finish(svc[p], FALSE,
                        RouterAnswer(ResolveUrlsOutcome(proc[p].outcome)))]
    /\ ResolverUntouched

NextSvc ==
    \/ \E p \in Callers : Fetch(p)
    \/ \E p \in Callers : Resolved(p)
    \/ \E p \in Callers : ObserverAnswers(p)
    \/ \E p \in Callers : GetResolveUrls(p)
    \/ \E p \in Callers : ResolveUrlsSettled(p)
    \/ \E p \in Procs : OnEnvironment(p)
    \/ \E p \in Procs : OnDataPlane(p)
    \/ \E p \in Procs : OnClusterDataPlane(p)
    \/ \E p \in Procs : OnProject(p)
    \/ \E p \in Procs : OnBuildPlane(p)
    \/ \E p \in Procs : OnClusterBuildPlane(p)
    \/ \E p \in Procs : OnObservabilityPlane(p)
    \/ \E p \in Procs : Respond(p)
    \/ Tick

\* every service constructs its resolver without cacheTtlMs
InitSvc == Init /\ "cacheTtlMs" \notin DOMAIN options

SpecSvc == InitSvc /\ [][NextSvc]_vars

---------------------------------------------------------------------------
(* The router by itself.  createRouter is given its observabilityService,  *)
(* so its handlers are taken here against a service that may settle in     *)
(* any way the interface allows.                                           *)

Routes == {"/resolve-urls", "/environments"}

\* the service method a route calls
MethodOf(route) ==
    IF route = "/resolve-urls" THEN "resolveUrls"
    ELSE "fetchEnvironmentsByNamespace"

\* a value thrown that is not an Error
NotAnError == [thrown |-> "boom"]

\* the ways a call of the service may settle
ServiceOutcomes(method, namespaceName) ==
    {[threw |-> FALSE, value |-> v] :
        v \in IF method = "resolveUrls"
              THEN {UrlsResult(Answer(o)) : o \in ObsValues \ {Missing}}
              ELSE {<<>>, <<[name |-> "dev"]>>}}
    \cup
    {[threw |-> TRUE, value |-> e] :
        e \in {ObservabilityNotConfiguredError(method, namespaceName, Undefined),
               [name |-> "Error", message |-> "Internal error"],
               NotAnError}}

\* the response of GET /environments to the outcome o of
\* fetchEnvironmentsByNamespace
EnvironmentsAnswer(o) ==
    IF ~o.threw THEN Json(200, [environments |-> o.value])
    ELSE IF IsNotConfiguredError(o.value)
    THEN Json(404, [error |-> o.value.message])
    ELSE Json(500, [error |->
                      ErrorText(o.value, "Failed to fetch environments")])

\* variant: one parameter of /resolve-urls is enough
MissingParameters_All(route, query) ==
    IF route = "/resolve-urls"
    THEN query.namespaceName = Undefined /\ query.environmentName = Undefined
    ELSE query.namespace = Undefined

\* the query parameters a route requires, and what it says without them
MissingParameters(route, query) ==
    IF route = "/resolve-urls"
    THEN query.namespaceName = Undefined \/ query.environmentName = Undefined
    ELSE query.namespace = Undefined
ParametersRequired(route) ==
    IF route = "/resolve-urls"
    THEN "namespaceName and environmentName are required"
    ELSE "Namespace is required"

Queries(route) ==
    IF route = "/resolve-urls"
    THEN [namespaceName : Namespaces \cup {Undefined},
          environmentName : EnvNames \cup {Undefined}]
    ELSE [namespace : Namespaces \cup {Undefined}]

\* variant: the parameters are validated before the credentials
Admit_ValidatingFirst(route, authEnabled, hasCredentials, query) ==
    IF MissingParameters(route, query)
    THEN Json(400, [error |-> ParametersRequired(route)])
    ELSE IF authEnabled /\ ~hasCredentials
    THEN Json(401, [error |-> "AuthenticationError"])
    ELSE None

\* the part of a handler before its try block: the response it ends with,
\* or None when it goes on to call the service
Admit(route, authEnabled, hasCredentials, query) ==
    IF authEnabled /\ ~hasCredentials
    THEN Json(401, [error |-> "AuthenticationError"])
    ELSE IF MissingParameters(route, query)
    THEN Json(400, [error |-> ParametersRequired(route)])
    ELSE None

\* a request arrives at a route: the handler responds at once, or calls
\* the service and awaits it
Handle(p) ==
    /\ svc[p].pc \in {"idle", "done"}
    /\ \E route \in Routes, authEnabled \in BOOLEAN, hasCredentials \in BOOLEAN :
       \E query \in Queries(route) :
          LET subject == [route |-> route, query |-> query,
                          authEnabled |-> authEnabled,
                          hasCredentials |-> hasCredentials]
              begun == [Begin(MethodOf(route), "observabilityService", subject)
                          EXCEPT !.pc = "calling", !.resolverCalls = 0]
              early == Admit(route, authEnabled, hasCredentials, query)
          IN  svc' = [svc EXCEPT ![p] =
                        IF early # None
                        THEN Finish([begun EXCEPT !.invoked = <<>>],
                                    FALSE, early)
                        ELSE begun]
    /\ ResolverUntouched

\* the service call settles: the handler responds
Settle(p) ==
    /\ svc[p].pc = "calling"
    /\ LET sr == svc[p]
           route == sr.subject.route
           ns == IF route = "/resolve-urls" THEN sr.subject.query.namespaceName
                 ELSE sr.subject.query.namespace
       IN  \E o \in ServiceOutcomes(sr.subject.method, ns) :
              svc' = [svc EXCEPT ![p] =
                        Finish([sr EXCEPT !.subject =
                                   [f \in DOMAIN sr.subject \cup {"settled"} |->
                                      IF f = "settled" THEN o
                                      ELSE sr.subject[f]]],
                               FALSE,
                               IF route = "/resolve-urls" THEN RouterAnswer(o)
                               ELSE EnvironmentsAnswer(o))]
    /\ ResolverUntouched

NextRouter ==
    \/ \E p \in Procs : Handle(p)
    \/ \E p \in Procs : Settle(p)

SpecRouter == InitSvc /\ [][NextRouter]_vars

---------------------------------------------------------------------------
(* GenericWorkflowService.getWorkflowRunLogs, over a resolver of its own   *)

RunNames == {"run-1"}

Condition(type, status) == [type |-> type, status |-> status]
\* `conditions.some(c => c.type === type && c.status === 'True')`
SomeTrue(conditions, type) == Condition(type, "True") \in conditions

\* variant: a run that is still running counts as succeeded
deriveWorkflowRunStatus_RunningFirst(run) ==
    IF run.conditions = {} THEN "Pending"
    ELSE IF SomeTrue(run.conditions, "WorkflowRunning") THEN "Succeeded"
    ELSE IF SomeTrue(run.conditions, "WorkloadUpdated") THEN "Completed"
    ELSE IF SomeTrue(run.conditions, "WorkflowFailed") THEN "Failed"
    ELSE IF SomeTrue(run.conditions, "WorkflowSucceeded") THEN "Succeeded"
    ELSE "Pending"

deriveWorkflowRunStatus(run) ==
    IF run.conditions = {} THEN "Pending"
    ELSE IF SomeTrue(run.conditions, "WorkloadUpdated") THEN "Completed"
    ELSE IF SomeTrue(run.conditions, "WorkflowFailed") THEN "Failed"
    ELSE IF SomeTrue(run.conditions, "WorkflowSucceeded") THEN "Succeeded"
    ELSE IF SomeTrue(run.conditions, "WorkflowRunning") THEN "Running"
    ELSE "Pending"

TERMINAL_STATUSES == {"Completed", "Failed", "Succeeded"}

\* the workflow runs the API may hold: their conditions and project label
RunConditions ==
    {{},
     {Condition("WorkflowRunning", "True")},
     {Condition("WorkflowSucceeded", "False"), Condition("WorkflowRunning", "True")},
     {Condition("WorkflowSucceeded", "True")},
     {Condition("WorkflowFailed", "True"), Condition("WorkflowRunning", "True")},
     {Condition("WorkloadUpdated", "True"), Condition("WorkflowFailed", "True")}}
Runs == [conditions : RunConditions, project : ProjectNames \cup {Undefined}]

\* the request for the run answered with an error response, or rejected
RunError == [failed |-> "error"]
RunRejected == [failed |-> "rejected"]

\* `{ logs: [], totalCount: 0 }`
NoLogs == [logs |-> <<>>, totalCount |-> 0]

\* the method is called: it asks the API for the live logs of the run
GetWorkflowRunLogs(p) ==
    /\ Addressable(p, "GenericWorkflowService")
    /\ \E namespaceName \in Namespaces, runName \in RunNames, token \in Tokens :
          svc' = [svc EXCEPT ![p] =
                    [Begin("getWorkflowRunLogs", "GenericWorkflowService",
                           [namespaceName |-> namespaceName,
                            runName |-> runName, token |-> token,
                            live |-> "pending", run |-> None])
                       EXCEPT !.pc = "liveLogs", !.resolverCalls = 0]]
    /\ ResolverUntouched

\* the live-logs request settles: entries end the call, anything else makes
\* it ask for the run
OnLiveLogs(p) ==
    /\ svc[p].pc = "liveLogs"
    /\ \E live \in {"entries", "empty", "error", "rejected"} :
          LET sr == [svc[p] EXCEPT !.subject.live = live]
          IN  svc' = [svc EXCEPT ![p] =
                        IF live = "rejected"
                        THEN Finish(sr, TRUE, [message |-> "fetch failed"])
                        ELSE IF live = "entries"
                        THEN Finish(sr, FALSE,
                                    [logs |-> <<"live">>, totalCount |-> 1])
                        ELSE [sr EXCEPT !.pc = "run"]]
    /\ ResolverUntouched

\* the request for the run settles: only for a run in a terminal status is
\* the resolver called, by project when the run is labelled with one
OnRun(p) ==
    /\ svc[p].pc = "run"
    /\ \E run \in Runs \cup {RunError, RunRejected} :
          LET sr == [svc[p] EXCEPT !.subject.run = run]
              ns == sr.subject.namespaceName
              token == sr.subject.token
          IN  IF run = RunRejected
              THEN /\ svc' = [svc EXCEPT ![p] =
                                Finish(sr, TRUE, [message |-> "fetch failed"])]
                   /\ ResolverUntouched
              ELSE IF run = RunError
              THEN /\ svc' = [svc EXCEPT ![p] = Finish(sr, FALSE, NoLogs)]
                   /\ ResolverUntouched
              ELSE IF deriveWorkflowRunStatus(run) \notin TERMINAL_STATUSES
              THEN /\ svc' = [svc EXCEPT ![p] = Finish(sr, FALSE, NoLogs)]
                   /\ ResolverUntouched
              ELSE /\ svc' = [svc EXCEPT ![p] =
                                [sr EXCEPT !.pc = "resolving",
                                           !.resolverCalls = 1]]
                   /\ IF run.project # Undefined
                      THEN CallResolveForBuild(p, ns, run.project, token)
                      ELSE CallResolveForEnvironment(p, ns, "development",
                                                     token)

\* the resolver's promise has settled: a failure or an absent observerUrl
\* ends the call with no logs, otherwise the observer is queried
OnObserverUrl(p) ==
    /\ svc[p].pc = "resolving"
    /\ svc[p].subject.method = "getWorkflowRunLogs"
    /\ proc[p].pc = "done"
    /\ LET sr == svc[p]
           o == proc[p].outcome
       IN  svc' = [svc EXCEPT ![p] =
                     IF o.threw THEN Finish(sr, FALSE, NoLogs)
                     ELSE IF ObserverUrlAbsent(o.value)
                     THEN Finish(sr, FALSE, NoLogs)
                     ELSE [sr EXCEPT !.pc = "querying",
                                     !.clients = @ + 1,
                                     !.sent = <<"/api/v1/logs/query">>]]
    /\ ResolverUntouched

\* the observer's answer settles
OnObserverLogs(p) ==
    /\ svc[p].pc = "querying"
    /\ svc[p].subject.method = "getWorkflowRunLogs"
    /\ \E answer \in {"ok", "error", "rejected"} :
          svc' = [svc EXCEPT ![p] =
                    IF answer = "rejected"
                    THEN Finish(svc[p], TRUE, [message |-> "fetch failed"])
                    ELSE IF answer = "error"
                    THEN Finish(svc[p], FALSE, NoLogs)
                    ELSE Finish(svc[p], FALSE,
                                [logs |-> <<"stored">>, totalCount |-> 1])]
    /\ ResolverUntouched

NextWorkflow ==
    \/ \E p \in Callers : GetWorkflowRunLogs(p)
    \/ \E p \in Callers : OnLiveLogs(p)
    \/ \E p \in Callers : OnRun(p)
    \/ \E p \in Callers : OnObserverUrl(p)
    \/ \E p \in Callers : OnObserverLogs(p)
    \/ \E p \in Procs : OnEnvironment(p)
    \/ \E p \in Procs : OnDataPlane(p)
    \/ \E p \in Procs : OnClusterDataPlane(p)
    \/ \E p \in Procs : OnProject(p)
    \/ \E p \in Procs : OnBuildPlane(p)
    \/ \E p \in Procs : OnClusterBuildPlane(p)
    \/ \E p \in Procs : OnObservabilityPlane(p)
    \/ \E p \in Procs : Respond(p)

SpecWorkflow == InitSvc /\ [][NextWorkflow]_vars

---------------------------------------------------------------------------
(* The frontend's fetch API, OpenChoreoFetchApi.  Headers lower-cases the  *)
(* names it is given; a set of headers is a function from names to values. *)

OPENCHOREO_TOKEN_HEADER == "x-openchoreo-token"
DIRECT_MODE_HEADER == "x-openchoreo-direct"

BackstageToken == "backstage-token"
IdpToken == "idp-token"

\* `this.authEnabled`
AuthEnabled == IF app.authConfig = Undefined THEN TRUE ELSE app.authConfig = "true"

\* the headers a caller may pass in init
InitHeaderValues ==
    [n \in {"authorization", OPENCHOREO_TOKEN_HEADER, DIRECT_MODE_HEADER} |->
       IF n = "authorization" THEN "Bearer caller"
       ELSE IF n = OPENCHOREO_TOKEN_HEADER THEN "caller" ELSE "true"]
InitHeaders ==
    {[n \in names |-> InitHeaderValues[n]] : names \in SUBSET DOMAIN InitHeaderValues}

\* `fetch(input, { ...init, headers })`
Send(fc) == [fc EXCEPT !.pc = "sent", !.outgoing = fc.headers]
\* `await this.oauthApi.getAccessToken()`
AskAccessToken(fc) ==
    [fc EXCEPT !.pc = "getAccessToken", !.asked = Append(@, "getAccessToken")]
\* `await this.identityApi.getCredentials()`
AskCredentials(fc) ==
    [fc EXCEPT !.pc = "getCredentials", !.asked = Append(@, "getCredentials")]

BackendUntouched ==
    UNCHANGED <<options, cacheTtlMs, cache, now, backing, epoch, events,
                calls, proc, svc>>

\* variant: the signal header is left in place
AfterDirectCheck_Keeping(headers) == headers

\* `if (isDirect) headers.delete(DIRECT_MODE_HEADER)`
AfterDirectCheck(headers) == MapDelete(headers, DIRECT_MODE_HEADER)

\* fetch is called: it runs to its first await, or sends at once
FetchApiFetch(p) ==
    /\ app.fetch[p].pc \in {"idle", "sent", "failed"}
    /\ \E init \in InitHeaders :
          LET isDirect == DIRECT_MODE_HEADER \in DOMAIN init
              fc == [NoFetch EXCEPT !.init = init, !.isDirect = isDirect,
                                    !.headers = IF isDirect
                                                THEN AfterDirectCheck(init)
                                                ELSE init]
          IN  app' = [app EXCEPT !.fetch[p] =
                        IF isDirect
                        THEN IF AuthEnabled THEN AskAccessToken(fc) ELSE Send(fc)
                        ELSE AskCredentials(fc)]
    /\ BackendUntouched

\* getCredentials settles (normal mode only): a rejection makes fetch throw
OnCredentials(p) ==
    /\ app.fetch[p].pc = "getCredentials"
    /\ \E result \in {"rejected", Undefined, BackstageToken} :
          LET fc == [app.fetch[p] EXCEPT !.backstageToken = result]
              set == IF result = Undefined THEN fc
                     ELSE [fc EXCEPT !.headers =
                             MapSet(@, "authorization", "Bearer " \o result)]
          IN  app' = [app EXCEPT !.fetch[p] =
                        IF result = "rejected" THEN [fc EXCEPT !.pc = "failed"]
                        ELSE IF AuthEnabled THEN AskAccessToken(set)
                        ELSE Send(set)]
    /\ BackendUntouched

\* getAccessToken settles: a rejection is swallowed
OnAccessToken(p) ==
    /\ app.fetch[p].pc = "getAccessToken"
    /\ \E result \in {"rejected", Undefined, IdpToken} :
          LET fc == [app.fetch[p] EXCEPT !.idpToken = result]
          IN  app' = [app EXCEPT !.fetch[p] =
                        Send(IF result \in {"rejected", Undefined} THEN fc
                             ELSE IF fc.isDirect
                             THEN [fc EXCEPT !.headers =
                                     MapSet(@, "authorization",
                                            "Bearer " \o result)]
                             ELSE [fc EXCEPT !.headers =
                                     MapSet(@, OPENCHOREO_TOKEN_HEADER, result)])]
    /\ BackendUntouched

NextFetchApi ==
    \/ \E p \in Callers : FetchApiFetch(p)
    \/ \E p \in Callers : OnCredentials(p)
    \/ \E p \in Callers : OnAccessToken(p)

\* the frontend after construction, over a backend that is constructed too
InitApp ==
    /\ InitBackend
    /\ "cacheTtlMs" \notin DOMAIN options
    /\ app \in {[NoApp EXCEPT !.authConfig = c] : c \in AuthConfigs}

SpecFetchApi == InitApp /\ [][NextFetchApi]_vars

---------------------------------------------------------------------------
(* The frontend's ObserverUrlCache, in front of GET /resolve-urls          *)

CACHE_TTL_MS == 5 * 60 * 1000

\* the bodies a response of the backend may carry: the URLs (observerUrl
\* present, empty or absent), an error object, or no JSON at all
Unparsable == [unparsable |-> TRUE]
UrlBodies ==
    {[observerUrl |-> o, rcaAgentUrl |-> r] :
        o \in {Undefined, "", "https://observer.example.com"},
        r \in {Undefined, "https://rca.example.com"}}
BackendResponses ==
    {[ok |-> TRUE, status |-> 200, statusText |-> "OK", body |-> b] :
        b \in UrlBodies \cup {Unparsable}}
    \cup
    {[ok |-> FALSE, status |-> 404, statusText |-> "Not Found", body |-> b] :
        b \in {[error |-> "Observability is not configured for component org-1"],
               [error |-> Undefined], Unparsable}}

\* `${namespaceName}/${environmentName}`
UrlCacheKey(namespaceName, environmentName) ==
    namespaceName \o "/" \o environmentName

\* variant: an entry is served at its expiry time too
UrlCacheHit_Inclusive(c, key, t) == key \in DOMAIN c /\ t <= c[key].expiresAt

\* `cached && Date.now() < cached.expiresAt`
UrlCacheHit(c, key, t) == key \in DOMAIN c /\ t < c[key].expiresAt

\* variant: any body will do
HasObserverUrl_Any(data) == TRUE

\* `data.observerUrl` is truthy
HasObserverUrl(data) == data.observerUrl \notin {Undefined, ""}

\* the URLs of an entry or a body
UrlsOf(x) == [observerUrl |-> x.observerUrl, rcaAgentUrl |-> x.rcaAgentUrl]

Ended(lc, threw, value) ==
    [lc EXCEPT !.pc = "done", !.outcome = [threw |-> threw, value |-> value]]

\* resolveUrls is called: a live entry is returned, otherwise the base URL
\* of the backend is asked for
UrlCacheResolveUrls(p) ==
    /\ app.urls[p].pc \in {"idle", "done"}
    /\ \E namespaceName \in Namespaces, environmentName \in EnvNames :
          LET cacheKey == UrlCacheKey(namespaceName, environmentName)
              lc == [NoLookup EXCEPT !.cacheKey = cacheKey,
                                     !.before = app.urlCache,
                                     !.startNow = now]
          IN  app' = [app EXCEPT !.urls[p] =
                        IF UrlCacheHit(app.urlCache, cacheKey, now)
                        THEN Ended(lc, FALSE, UrlsOf(app.urlCache[cacheKey]))
                        ELSE [lc EXCEPT !.pc = "getBaseUrl"]]
    /\ BackendUntouched

\* discoveryApi.getBaseUrl settles: the request to /resolve-urls goes out
OnBaseUrl(p) ==
    /\ app.urls[p].pc = "getBaseUrl"
    /\ \E found \in BOOLEAN :
          app' = [app EXCEPT !.urls[p] =
                    IF found
                    THEN [@ EXCEPT !.pc = "fetch", !.requests = @ + 1]
                    ELSE Ended(@, TRUE, [message |-> "discovery failed"])]
    /\ BackendUntouched

\* fetchApi.fetch settles: with a response, whose body is then read, or
\* with a rejection
OnUrlsResponse(p) ==
    /\ app.urls[p].pc = "fetch"
    /\ \/ \E response \in BackendResponses :
             app' = [app EXCEPT !.urls[p] =
                       [@ EXCEPT !.pc = "json", !.response = response]]
       \/ app' = [app EXCEPT !.urls[p] =
                     Ended(@, TRUE, [message |-> "fetch failed"])]
    /\ BackendUntouched

\* response.json() settles: the rest of resolveUrls
OnUrlsBody(p) ==
    /\ app.urls[p].pc = "json"
    /\ LET lc == app.urls[p]
           response == lc.response
           data == response.body
           failed == "Failed to resolve observer URLs: "
       IN  IF ~response.ok
           THEN app' = [app EXCEPT !.urls[p] =
                   Ended(lc, TRUE,
                      [message |->
                         IF data = Unparsable
                         THEN failed \o ToString(response.status) \o " "
                                     \o response.statusText
                         ELSE IF data.error # Undefined THEN data.error
                         ELSE failed \o response.statusText])]
           ELSE IF data = Unparsable
           THEN app' = [app EXCEPT !.urls[p] =
                   Ended(lc, TRUE, [message |-> "Unexpected token"])]
           ELSE IF ~HasObserverUrl(data)
           THEN app' = [app EXCEPT !.urls[p] =
                   Ended(lc, TRUE,
                      [message |-> "Observability is not enabled for this component"])]
           ELSE app' = [app EXCEPT
                   !.urlCache = MapSet(@, lc.cacheKey,
                                   [observerUrl |-> data.observerUrl,
                                    rcaAgentUrl |-> data.rcaAgentUrl,
                                    expiresAt |-> now + CACHE_TTL_MS]),
                   !.urls[p] = Ended(lc, FALSE, UrlsOf(data))]
    /\ BackendUntouched

NextUrlCache ==
    \/ \E p \in Procs : UrlCacheResolveUrls(p)
    \/ \E p \in Procs : OnBaseUrl(p)
    \/ \E p \in Procs : OnUrlsResponse(p)
    \/ \E p \in Procs : OnUrlsBody(p)
    \/ Tick

SpecUrlCache == InitSvc /\ [][NextUrlCache]_vars

\* ---- C30 ----
Served(p) == app.urls[p].pc = "done" /\ ~app.urls[p].outcome.threw
Raised(p) == app.urls[p].pc = "done" /\ app.urls[p].outcome.threw

\* whether the body being read would yield no observerUrl
BadResponse(p) ==
    /\ app.urls[p].pc = "json"
    /\ \/ ~app.urls[p].response.ok
       \/ app.urls[p].response.body = Unparsable
       \/ app.urls[p].response.body.observerUrl \in {Undefined, ""}

\* claim C30: the frontend ObserverUrlCache.resolveUrls never returns and
\* never stores a result without an observerUrl; a backend response that is
\* not ok, or whose body lacks observerUrl, raises an error and leaves the
\* cache unchanged; a call is answered without a backend request exactly
\* when the cache holds an entry for its key with now < expiresAt, and then
\* with that entry's URLs; an entry expires CACHE_TTL_MS (5 minutes) after
\* the moment it was stored.
C30_FrontendCacheHoldsOnlyObserverUrls ==
    /\ [](\A p \in Procs : Served(p) =>
              app.urls[p].outcome.value.observerUrl \notin {Undefined, ""})
    /\ [](\A key \in DOMAIN app.urlCache :
              app.urlCache[key].observerUrl \notin {Undefined, ""})
    /\ [][\A p \in Procs :
            /\ (BadResponse(p) /\ app.urls'[p] # app.urls[p]) =>
                  /\ app.urls'[p].pc = "done" /\ app.urls'[p].outcome.threw
                  /\ app.urlCache' = app.urlCache
            /\ (app.urls[p].pc \in {"idle", "done"} /\ app.urls'[p] # app.urls[p]) =>
                  LET key == app.urls'[p].cacheKey
                      live == key \in DOMAIN app.urlCache
                                 /\ now < app.urlCache[key].expiresAt
                  IN  /\ app.urlCache' = app.urlCache
                      /\ app.urls'[p].requests = 0
                      /\ live <=> app.urls'[p].pc = "done"
                      /\ live => /\ ~app.urls'[p].outcome.threw
                                 /\ app.urls'[p].outcome.value =
                                       UrlsOf(app.urlCache[key])
            /\ (app.urls[p].pc = "json" /\ ~BadResponse(p)
                   /\ app.urls'[p] # app.urls[p]) =>
                  LET key == app.urls[p].cacheKey
                  IN  /\ key \in DOMAIN app.urlCache'
                      /\ app.urlCache'[key].expiresAt = now + 300000
                      /\ UrlsOf(app.urlCache'[key]) = app.urls'[p].outcome.value
                      /\ \A other \in DOMAIN app.urlCache \ {key} :
                            /\ other \in DOMAIN app.urlCache'
                            /\ app.urlCache'[other] = app.urlCache[other]]_vars

\* an entry stored at time 0 has expired: one caller was refused on a body
\* without observerUrl and left the cache as it was, another is asking the
\* backend again although its key is still in the cache
C30_Witness ==
    \E p, q \in Procs :
        /\ p # q
        /\ Raised(p) /\ app.urls[p].response # None
        /\ app.urls[p].response.ok
        /\ app.urls[p].outcome.value.message =
              "Observability is not enabled for this component"
        /\ app.urls[q].pc = "fetch"
        /\ app.urls[q].cacheKey \in DOMAIN app.urlCache
        /\ app.urls[q].startNow >= app.urlCache[app.urls[q].cacheKey].expiresAt

---------------------------------------------------------------------------
(* Vocabulary of the properties *)

Done(p) == proc[p].pc = "done"
Threw(p) == Done(p) /\ proc[p].outcome.threw
Returned(p) == Done(p) /\ ~proc[p].outcome.threw

\* this step is caller p entering resolveForEnvironment / resolveForBuild
Enters(p) == proc'[p].seq # proc[p].seq
\* ... again, with the arguments of its previous call, which has completed
EntersAgain(p) ==
    /\ Done(p)
    /\ Enters(p)
    /\ proc'[p].op = proc[p].op
    /\ proc'[p].namespaceName = proc[p].namespaceName
    /\ proc'[p].name = proc[p].name
\* this step ends the call of caller p with a failure
Fails(p) ==
    /\ proc[p].pc \notin {"idle", "done"}
    /\ proc'[p].pc = "done"
    /\ proc'[p].outcome.threw
\* after this step the call of p is suspended on its first lookup
WalksAfter(p) ==
    /\ proc'[p].pc \notin {"idle", "done"}
    /\ ~proc'[p].hit
    /\ Len(proc'[p].lookups) = 1
\* after this step the call of p has returned from the cache without a lookup
ServedFromCacheAfter(p) ==
    /\ proc'[p].pc = "done"
    /\ proc'[p].lookups = <<>>
    /\ ~proc'[p].outcome.threw

---------------------------------------------------------------------------
(* C1 as stated: resolveForEnvironment called twice with the same
   (namespaceName, envName) and no change to the backing resources returns
   identical results, and the second call makes zero lookups. *)
C1_TwiceIdenticalNoLookups ==
    [][\A p \in Procs :
          (EntersAgain(p) /\ proc[p].op = "env" /\ proc[p].startEpoch = epoch)
          => (ServedFromCacheAfter(p) /\ proc'[p].outcome = proc[p].outcome)]_vars

(* C1 as amended: when the first call succeeded, the second call is made
   less than the TTL after the first completed, no backing resource changed
   and no other caller is resolving, the second call returns the identical
   result and makes zero lookups. *)
C1_TwiceWithinTtlServedFromCache ==
    [][\A p \in Procs :
          (/\ EntersAgain(p) /\ proc[p].op = "env"
           /\ proc[p].startEpoch = epoch
           /\ ~proc[p].outcome.threw
           /\ now < proc[p].doneNow + cacheTtlMs
           /\ \A q \in Procs \ {p} : proc[q].pc = "idle")
          => (ServedFromCacheAfter(p) /\ proc'[p].outcome = proc[p].outcome)]_vars

\* C1 witness: a second resolveForEnvironment call was answered from the cache
C1_Witness ==
    \E p \in Procs :
       /\ Returned(p) /\ proc[p].op = "env" /\ proc[p].seq = 2
       /\ proc[p].hit /\ proc[p].lookups = <<>>
       /\ proc[p].outcome.value.observerUrl # Undefined

(* C2: a failed resolution is never cached.  The step in which a call fails
   leaves the cache as it was, with no entry under the call's key, and the
   caller's next call with the same arguments issues the lookups again. *)
C2_FailureNotCached ==
    [][\A p \in Procs :
          /\ Fails(p) => (cache' = cache /\ proc[p].cacheKey \notin DOMAIN cache')
          /\ (EntersAgain(p) /\ proc[p].outcome.threw) => WalksAfter(p)]_vars

\* C2 witness: with the default TTL and no clock step, fault or change, a
\* second call walks the chain: the first one failed and left nothing cached
C2_Witness ==
    \E p \in Procs :
       /\ proc[p].seq = 2 /\ ~proc[p].hit /\ Len(proc[p].lookups) >= 1
       /\ events = 0 /\ cacheTtlMs = DEFAULT_CACHE_TTL_MS
       /\ cache = EmptyMap

(* C3: once the TTL of a cached entry has elapsed (now >= expiresAt, where
   expiresAt is the time of the write plus the TTL: 5 minutes, or the value
   given at construction) the entry is never returned: the next call for the
   key deletes it and walks the chain again. *)
C3_ExpiredEntryNeverReturned ==
    [][\A p \in Procs :
          LET k == proc'[p].cacheKey
              ttl == IF "cacheTtlMs" \in DOMAIN options THEN options.cacheTtlMs
                     ELSE 5 * 60 * 1000
          IN  /\ (Enters(p) /\ k \in DOMAIN cache /\ now >= cache[k].expiresAt)
                 => (k \notin DOMAIN cache' /\ WalksAfter(p))
              /\ (Enters(p) /\ proc'[p].hit)
                 => (/\ k \in DOMAIN cache /\ now < cache[k].expiresAt
                     /\ proc'[p].outcome.value = cache[k].result)
              /\ (proc[p].pc \notin {"idle", "done"} /\ proc'[p].pc = "done"
                  /\ ~proc'[p].outcome.threw)
                 => cache'[k].expiresAt = now + ttl]_vars

\* C3 witness: under the default TTL a call found the entry expired, deleted
\* it and is walking the chain
C3_Witness ==
    \E p \in Procs :
       /\ proc[p].evicted /\ ~proc[p].hit /\ Len(proc[p].lookups) >= 1
       /\ cacheTtlMs = DEFAULT_CACHE_TTL_MS /\ now >= DEFAULT_CACHE_TTL_MS

---------------------------------------------------------------------------
(* Vocabulary of the chain-walk properties *)

\* this step is the call of caller p continuing after an await
Handles(p) == proc[p].resp # None /\ proc'[p] # proc[p]
\* ... on a response that carries the resource
HandlesOk(p) == Handles(p) /\ ~proc[p].resp.rejected /\ proc[p].resp.ok
\* ... on a lookup that failed
HandlesFailure(p) == Handles(p) /\ (proc[p].resp.rejected \/ ~proc[p].resp.ok)
\* ... on a lookup that reported not-found
HandlesNotFound(p) ==
    Handles(p) /\ ~proc[p].resp.rejected /\ proc[p].resp.status = 404

\* the hop a call is suspended on, by the kind of resource awaited
RootHops == {"environment", "project"}
NamespacedPlaneHops == {"dataplane", "buildplane"}
ClusterPlaneHops == {"clusterdataplane", "clusterbuildplane"}
\* the reference field a resource of that hop carries, and its allowed kinds
RefFieldAt(at) ==
    CASE at = "environment" -> "dataPlaneRef"
      [] at = "project" -> "buildPlaneRef"
      [] OTHER -> "observabilityPlaneRef"
AllowedKindsAt(at) ==
    CASE at = "environment" -> {"DataPlane", "ClusterDataPlane"}
      [] at = "project" -> {"BuildPlane", "ClusterBuildPlane"}
      [] OTHER -> {"ObservabilityPlane", "ClusterObservabilityPlane"}
\* the reference carried by the resource in the response p is handling
RefRead(p) == proc[p].resp.data.spec[RefFieldAt(proc[p].pc)]

\* after this step the call of p is suspended on exactly one more lookup, r
Looks(p, at, r) ==
    /\ proc'[p].pc = at
    /\ proc'[p].req = r
    /\ proc'[p].lookups = Append(proc[p].lookups, r)
\* this step ends the call of p with a failure and issues no lookup
FailsWithoutLookup(p) == Fails(p) /\ proc'[p].lookups = proc[p].lookups

CountOf(coll, lookups) ==
    Cardinality({i \in 1..Len(lookups) : lookups[i].coll = coll})

---------------------------------------------------------------------------
(* C4: in resolveForBuild, when the project declares no buildPlaneRef and
   BuildPlane(namespace, "default") is not found, the resolver retries
   exactly once, against ClusterBuildPlane("default"); when the project
   declares an explicit buildPlaneRef of either kind whose target is not
   found, no cluster fallback lookup is made and the call fails. *)
C4_BuildPlaneClusterFallback ==
    /\ [](\A p \in Procs :
            /\ CountOf("clusterbuildplanes", proc[p].lookups) <= 1
            /\ CountOf("buildplanes", proc[p].lookups) <= 1)
    /\ [][\A p \in Procs :
            /\ (HandlesOk(p) /\ proc[p].pc = "project" /\ proc'[p].pc # "done")
               => proc'[p].buildPlaneRef = RefRead(p)
            /\ (HandlesNotFound(p) /\ proc[p].pc = "buildplane")
               => IF proc[p].buildPlaneRef = NoRef
                  THEN Looks(p, "clusterbuildplane",
                             Req("clusterbuildplanes", Undefined, "default"))
                  ELSE FailsWithoutLookup(p)
            /\ (HandlesFailure(p) /\ proc[p].pc = "clusterbuildplane")
               => FailsWithoutLookup(p)]_vars

\* C4 witness: the project declared no buildPlaneRef, BuildPlane "default"
\* was not found and the call is suspended on ClusterBuildPlane "default"
C4_Witness ==
    \E p \in Procs :
       /\ proc[p].pc = "clusterbuildplane" /\ proc[p].buildPlaneRef = NoRef
       /\ Len(proc[p].lookups) = 3
       /\ proc[p].lookups[2] = Req("buildplanes", proc[p].namespaceName, "default")
       /\ proc[p].lookups[3] = Req("clusterbuildplanes", Undefined, "default")

(* C5: a reference whose kind is not one of the two kinds allowed at its
   hop (dataPlaneRef, buildPlaneRef, observabilityPlaneRef) makes the
   resolution fail with the unsupported-kind error for that kind; no lookup
   is issued for the hop and no default kind or name is substituted. *)
C5_UnsupportedKindFails ==
    [][\A p \in Procs :
          (/\ HandlesOk(p)
           /\ proc[p].pc \in RootHops \cup NamespacedPlaneHops \cup ClusterPlaneHops
           /\ RefRead(p) # NoRef
           /\ RefRead(p).kind \notin AllowedKindsAt(proc[p].pc))
          => /\ FailsWithoutLookup(p)
             /\ proc'[p].outcome.value =
                   [message |-> "Unsupported " \o RefFieldAt(proc[p].pc)
                                \o " kind '" \o RefRead(p).kind \o "'"]]_vars

\* C5 witness: a call failed on a data plane whose observabilityPlaneRef is
\* of kind FooPlane
C5_Witness ==
    \E p \in Procs :
       /\ Threw(p) /\ Len(proc[p].lookups) = 2
       /\ proc[p].outcome.value =
             [message |-> "Unsupported observabilityPlaneRef kind 'FooPlane'"]

(* C6: in resolveForEnvironment a dataPlaneRef of kind ClusterDataPlane
   leads to the ClusterDataPlane lookup and never to a namespace-scoped
   DataPlane lookup; a dataPlaneRef of kind DataPlane, or an absent one,
   leads to the DataPlane lookup and never to a ClusterDataPlane lookup.
   Data plane lookups are issued by no other step of the call. *)
C6_DataPlaneScopeRespected ==
    /\ [](\A p \in Procs :
            proc[p].op = "env"
            => CountOf("dataplanes", proc[p].lookups)
               + CountOf("clusterdataplanes", proc[p].lookups) <= 1)
    /\ [][\A p \in Procs :
            /\ (HandlesOk(p) /\ proc[p].pc = "environment" /\ RefRead(p) # NoRef
                /\ RefRead(p).kind = "ClusterDataPlane")
               => Looks(p, "clusterdataplane",
                        Req("clusterdataplanes", Undefined, RefRead(p).name))
            /\ (HandlesOk(p) /\ proc[p].pc = "environment"
                /\ (RefRead(p) = NoRef \/ RefRead(p).kind = "DataPlane"))
               => (proc'[p].pc = "dataplane" /\ proc'[p].req.coll = "dataplanes"
                   /\ CountOf("clusterdataplanes", proc'[p].lookups) = 0)
            /\ (CountOf("dataplanes", proc'[p].lookups)
                  + CountOf("clusterdataplanes", proc'[p].lookups) >
                CountOf("dataplanes", proc[p].lookups)
                  + CountOf("clusterdataplanes", proc[p].lookups))
               => (HandlesOk(p) /\ proc[p].pc = "environment")]_vars

\* C6 witness: a resolveForEnvironment call completed through a
\* ClusterDataPlane without a DataPlane lookup
C6_Witness ==
    \E p \in Procs :
       /\ Returned(p) /\ proc[p].op = "env" /\ Len(proc[p].lookups) = 3
       /\ proc[p].lookups[2] = Req("clusterdataplanes", Undefined, "primary")
       /\ CountOf("dataplanes", proc[p].lookups) = 0

(* C7: apart from the single build-plane cluster fallback, the first lookup
   that fails ends the resolution: the call fails in that step, no further
   lookup is issued and none is repeated.  In particular
   resolveForEnvironment with an absent dataPlaneRef whose DataPlane
   "default" is not found fails without trying ClusterDataPlane "default". *)
C7_FirstFailureEndsTheWalk ==
    /\ [](\A p \in Procs :
            \A i, j \in 1..Len(proc[p].lookups) :
               proc[p].lookups[i] = proc[p].lookups[j] => i = j)
    /\ [][\A p \in Procs :
            (/\ HandlesFailure(p)
             /\ ~(/\ proc[p].pc = "buildplane"
                  /\ HandlesNotFound(p)
                  /\ proc[p].buildPlaneRef = NoRef))
            => (FailsWithoutLookup(p) /\ cache' = cache)]_vars

\* C7 witness: the environment declared no dataPlaneRef, DataPlane "default"
\* was not found and the call failed after these two lookups
C7_Witness ==
    \E p \in Procs :
       /\ Threw(p) /\ proc[p].op = "env"
       /\ proc[p].lookups =
             <<Req("environments", proc[p].namespaceName, proc[p].name),
               Req("dataplanes", proc[p].namespaceName, "default")>>
       /\ proc[p].outcome.value =
             [message |-> "Failed to get DataPlane 'default': 404 Not Found"]

(* C8: when a hop's reference is absent the namespace-scoped default is
   used: an environment without dataPlaneRef leads to the lookup of
   DataPlane(namespace, "default") (a project without buildPlaneRef to
   BuildPlane(namespace, "default")), and a namespace-scoped data or build
   plane without observabilityPlaneRef leads to the lookup of
   ObservabilityPlane(namespace, "default"), whose URLs are returned as they
   are, possibly both absent. *)
C8_AbsentRefUsesNamespaceDefault ==
    [][\A p \in Procs :
          LET ns == proc[p].namespaceName
          IN  /\ (HandlesOk(p) /\ proc[p].pc = "environment" /\ RefRead(p) = NoRef)
                 => Looks(p, "dataplane", Req("dataplanes", ns, "default"))
              /\ (HandlesOk(p) /\ proc[p].pc = "project" /\ RefRead(p) = NoRef)
                 => Looks(p, "buildplane", Req("buildplanes", ns, "default"))
              /\ (HandlesOk(p) /\ proc[p].pc \in NamespacedPlaneHops
                  /\ RefRead(p) = NoRef)
                 => Looks(p, "observabilityplane",
                          Req("observabilityplanes", ns, "default"))
              /\ (HandlesOk(p) /\ proc[p].pc = "observabilityplane")
                 => (/\ proc'[p].pc = "done" /\ ~proc'[p].outcome.threw
                     /\ proc'[p].outcome.value =
                           [observerUrl |-> proc[p].resp.data.spec.observerURL,
                            rcaAgentUrl |-> proc[p].resp.data.spec.rcaAgentURL])]_vars

\* C8 witness: environment without dataPlaneRef, DataPlane "default" without
\* observabilityPlaneRef, ObservabilityPlane "default" without URLs
C8_Witness ==
    \E p \in Procs :
       /\ Returned(p) /\ proc[p].op = "env"
       /\ proc[p].lookups =
             <<Req("environments", proc[p].namespaceName, proc[p].name),
               Req("dataplanes", proc[p].namespaceName, "default"),
               Req("observabilityplanes", proc[p].namespaceName, "default")>>
       /\ proc[p].outcome.value =
             [observerUrl |-> Undefined, rcaAgentUrl |-> Undefined]

(* C9: a cluster-scoped plane (ClusterDataPlane, or ClusterBuildPlane
   reached by explicit reference or by the default fallback) that declares
   no observabilityPlaneRef leads to the lookup of
   ClusterObservabilityPlane("default"), never of
   ObservabilityPlane(namespace, "default"); a namespace-scoped plane that
   declares none leads to ObservabilityPlane(namespace, "default"), never to
   the cluster one. *)
C9_DefaultObsPlaneFollowsScope ==
    [][\A p \in Procs :
          /\ (HandlesOk(p) /\ proc[p].pc \in ClusterPlaneHops /\ RefRead(p) = NoRef)
             => (/\ Looks(p, "clusterobservabilityplane",
                          Req("clusterobservabilityplanes", Undefined, "default"))
                 /\ CountOf("observabilityplanes", proc'[p].lookups) = 0)
          /\ (HandlesOk(p) /\ proc[p].pc \in NamespacedPlaneHops
              /\ RefRead(p) = NoRef)
             => (/\ Looks(p, "observabilityplane",
                          Req("observabilityplanes", proc[p].namespaceName,
                              "default"))
                 /\ CountOf("clusterobservabilityplanes", proc'[p].lookups) = 0)]_vars

\* C9 witness: resolveForBuild fell back to ClusterBuildPlane "default",
\* which declares no observabilityPlaneRef, and is suspended on
\* ClusterObservabilityPlane "default"
C9_Witness ==
    \E p \in Procs :
       /\ proc[p].pc = "clusterobservabilityplane" /\ Len(proc[p].lookups) = 4
       /\ proc[p].lookups[2] = Req("buildplanes", proc[p].namespaceName, "default")
       /\ proc[p].lookups[3] = Req("clusterbuildplanes", Undefined, "default")
       /\ proc[p].lookups[4] = Req("clusterobservabilityplanes", Undefined, "default")

---------------------------------------------------------------------------
(* The observability plane an environment designates, read off the backing
   resources: the environment's dataPlaneRef names a plane, that plane's
   observabilityPlaneRef names the observability plane. *)

Holds(r) == r \in DOMAIN backing /\ backing[r] # Missing
ExplicitRef(ref, kinds) ==
    ref # NoRef /\ ref.kind \in kinds /\ ref.name # Undefined
Scoped(ref, namespacedKind, namespacedColl, clusterColl, ns) ==
    IF ref.kind = namespacedKind THEN Req(namespacedColl, ns, ref.name)
    ELSE Req(clusterColl, Undefined, ref.name)

DesignatedDataPlane(ns, env) ==
    Scoped(backing[Req("environments", ns, env)].dataPlaneRef,
           "DataPlane", "dataplanes", "clusterdataplanes", ns)
DesignatedObsPlane(ns, env) ==
    Scoped(backing[DesignatedDataPlane(ns, env)].observabilityPlaneRef,
           "ObservabilityPlane", "observabilityplanes",
           "clusterobservabilityplanes", ns)
\* every hop of the chain exists and carries an allowed kind
ChainComplete(ns, env) ==
    /\ Holds(Req("environments", ns, env))
    /\ ExplicitRef(backing[Req("environments", ns, env)].dataPlaneRef,
                   {"DataPlane", "ClusterDataPlane"})
    /\ Holds(DesignatedDataPlane(ns, env))
    /\ ExplicitRef(backing[DesignatedDataPlane(ns, env)].observabilityPlaneRef,
                   {"ObservabilityPlane", "ClusterObservabilityPlane"})
    /\ Holds(DesignatedObsPlane(ns, env))

(* C10: for backing resources in which every hop of the chain exists and
   carries an allowed kind, a resolveForEnvironment call that misses the
   cache (and whose lookups the API answers from those resources) returns
   exactly the observerURL and rcaAgentURL of the observability plane that
   the environment's dataPlaneRef and that plane's observabilityPlaneRef
   designate. *)
C10_ReturnsDesignatedUrls ==
    \A p \in Procs :
       (/\ Done(p) /\ proc[p].op = "env" /\ ~proc[p].hit
        /\ proc[p].startEpoch = epoch /\ ~proc[p].faulted
        /\ proc[p].token \notin RejectedTokens
        /\ ChainComplete(proc[p].namespaceName, proc[p].name))
       => /\ ~proc[p].outcome.threw
          /\ proc[p].outcome.value =
                [observerUrl |->
                    backing[DesignatedObsPlane(proc[p].namespaceName,
                                               proc[p].name)].observerURL,
                 rcaAgentUrl |->
                    backing[DesignatedObsPlane(proc[p].namespaceName,
                                               proc[p].name)].rcaAgentURL]

\* C10 witness: env dev -> DataPlane primary -> ObservabilityPlane obs-1 with
\* only observerURL set
C10_Witness ==
    \E p \in Procs :
       /\ Returned(p) /\ ~proc[p].hit
       /\ proc[p].lookups =
             <<Req("environments", "org-1", "dev"),
               Req("dataplanes", "org-1", "primary"),
               Req("observabilityplanes", "org-1", "obs-1")>>
       /\ proc[p].outcome.value =
             [observerUrl |-> "https://observer.example.com",
              rcaAgentUrl |-> Undefined]

---------------------------------------------------------------------------
(* The terminal hops of the walk *)
ObsPlaneHops == {"observabilityplane", "clusterobservabilityplane"}
NotConfigured == [observerUrl |-> Undefined, rcaAgentUrl |-> Undefined]

(* C11: a terminal observability plane (of either scope) on which both
   observerURL and rcaAgentURL are absent makes the resolution succeed: the
   call returns a result in which both URLs are absent, and never fails. *)
C11_NotConfiguredIsAResult ==
    [][\A p \in Procs :
          (/\ HandlesOk(p) /\ proc[p].pc \in ObsPlaneHops
           /\ proc[p].resp.data.spec.observerURL = Undefined
           /\ proc[p].resp.data.spec.rcaAgentURL = Undefined)
          => (/\ proc'[p].pc = "done"
              /\ ~proc'[p].outcome.threw
              /\ proc'[p].outcome.value = NotConfigured
              /\ proc'[p].lookups = proc[p].lookups)]_vars

\* C11 witness: a call returned the URL-less result read from a
\* ClusterObservabilityPlane
C11_Witness ==
    \E p \in Procs :
       /\ Returned(p) /\ ~proc[p].hit
       /\ proc[p].lookups[Len(proc[p].lookups)].coll = "clusterobservabilityplanes"
       /\ proc[p].outcome.value = NotConfigured

---------------------------------------------------------------------------
\* the entries of cache c under the keys other than key
OtherEntries(c, key) == [k \in (DOMAIN c) \ {key} |-> c[k]]
\* this step belongs to the resolver call of caller p
StepOfCall(p) ==
    /\ proc'[p] # proc[p]
    /\ \/ Enters(p)
       \/ proc[p].resp # None

(* C12: resolveForEnvironment and resolveForBuild are idempotent.  A call
   that repeats the caller's previous call with identical arguments, with no
   backing resource changed since the previous call began and every lookup of
   both calls answered by the API, ends as the previous call ended: the same
   result or the same failure, whether it is answered from the cache or
   recomputed.  A step of a call changes nothing of the resolver but the
   cache entry of the call's own key. *)
C12_Idempotent ==
    /\ [](\A p \in Procs :
            (/\ Done(p) /\ proc[p].prev # None
             /\ ~proc[p].faulted /\ proc[p].startEpoch = epoch)
            => proc[p].outcome = proc[p].prev)
    /\ [][\A p \in Procs :
            StepOfCall(p)
            => (/\ OtherEntries(cache', proc'[p].cacheKey)
                      = OtherEntries(cache, proc'[p].cacheKey)
                /\ cacheTtlMs' = cacheTtlMs /\ options' = options)]_vars

---------------------------------------------------------------------------
\* the hop a suspended call is at, and the resource kind it is fetching there
HopAt(at) ==
    CASE at = "environment" -> "environment"
      [] at = "project" -> "project"
      [] at \in {"dataplane", "clusterdataplane"} -> "dataplane"
      [] at \in {"buildplane", "clusterbuildplane"} -> "buildplane"
      [] OTHER -> "observabilityplane"
KindAt(at) ==
    CASE at = "environment" -> "environment"
      [] at = "project" -> "project"
      [] at = "dataplane" -> "DataPlane"
      [] at = "clusterdataplane" -> "ClusterDataPlane"
      [] at = "buildplane" -> "BuildPlane"
      [] at = "clusterbuildplane" -> "ClusterBuildPlane"
      [] at = "observabilityplane" -> "ObservabilityPlane"
      [] OTHER -> "ClusterObservabilityPlane"
\* the failure raised for a resource of kind `kind` named `name` not found
NotFoundMessage(kind, name) ==
    [message |-> "Failed to get " \o kind \o " '" \o name \o "': 404 Not Found"]
\* the hops whose not-found failure is the message m
HopsNamedBy(m) ==
    {HopAt(at) : at \in {a \in RootHops \cup NamespacedPlaneHops
                               \cup ClusterPlaneHops \cup ObsPlaneHops :
                          \E n \in {"dev", "shop", "default", "primary",
                                    "shared", "obs-1", Undefined} :
                             m = NotFoundMessage(KindAt(a), n)}}

(* C13: when a lookup reports that the resource does not exist (and it is
   not the BuildPlane "default" lookup that falls back), the call fails in
   that step with a not-found failure that names what was being fetched at
   that hop, its name and the 404 status, so the failure determines the hop:
   environment, project, dataplane, buildplane or observabilityplane.  For a
   project whose buildPlaneRef is {ClusterBuildPlane, "shared"} with no such
   plane, the failure names the ClusterBuildPlane "shared", the buildplane
   hop. *)
C13_NotFoundNamesTheHop ==
    [][\A p \in Procs :
          (/\ HandlesNotFound(p)
           /\ ~(proc[p].pc = "buildplane" /\ proc[p].buildPlaneRef = NoRef))
          => (/\ Fails(p)
              /\ proc'[p].outcome.value =
                    NotFoundMessage(KindAt(proc[p].pc), proc[p].req.name)
              /\ HopsNamedBy(proc'[p].outcome.value) = {HopAt(proc[p].pc)})]_vars

\* C13 witness: the project's buildPlaneRef is {ClusterBuildPlane, "shared"},
\* no such plane exists, and the call failed naming it
C13_Witness ==
    \E p \in Procs :
       /\ Threw(p) /\ proc[p].op = "build"
       /\ proc[p].lookups =
             <<Req("projects", "org-1", "shop"),
               Req("clusterbuildplanes", Undefined, "shared")>>
       /\ backing[Req("projects", "org-1", "shop")].buildPlaneRef =
             Ref("ClusterBuildPlane", "shared")
       /\ backing[Req("clusterbuildplanes", Undefined, "shared")] = Missing
       /\ proc[p].outcome.value =
             [message |-> "Failed to get ClusterBuildPlane 'shared': 404 Not Found"]

---------------------------------------------------------------------------
\* the call of p has walked (not been answered from the cache)
Walked(p) == proc[p].pc # "idle" /\ ~proc[p].hit
\* the call of p went from BuildPlane "default" to ClusterBuildPlane "default"
FallbackTaken(p) ==
    /\ Len(proc[p].lookups) >= 3
    /\ proc[p].lookups[2] = Req("buildplanes", proc[p].namespaceName, "default")
    /\ proc[p].lookups[3] = Req("clusterbuildplanes", Undefined, "default")
\* lookups are issued one at a time: a call issues a lookup only on entry or
\* in the step that handles the response to its previous lookup, and then
\* exactly one
OneAfterAnother ==
    [][\A p \in Procs :
          (proc'[p].lookups # proc[p].lookups /\ proc'[p].lookups # <<>>)
          => (/\ \/ Enters(p) /\ Len(proc'[p].lookups) = 1
                 \/ /\ Handles(p)
                    /\ Len(proc'[p].lookups) = Len(proc[p].lookups) + 1
                    /\ SubSeq(proc'[p].lookups, 1, Len(proc[p].lookups))
                          = proc[p].lookups
              /\ proc'[p].req = proc'[p].lookups[Len(proc'[p].lookups)]
              /\ proc'[p].resp = None)]_vars

(* C14 as stated: every call that walks the chain issues its lookups
   strictly one after another, at least 1 and at most 3 of them. *)
C14_OneToThreeLookups ==
    /\ [](\A p \in Procs :
            Walked(p) => (Len(proc[p].lookups) >= 1 /\ Len(proc[p].lookups) <= 3))
    /\ OneAfterAnother

(* C14 as amended: every call that walks the chain issues its lookups
   strictly one after another, at least 1 and at most 3 of them, except that
   a resolveForBuild call that falls back from BuildPlane "default" to
   ClusterBuildPlane "default" issues up to 4. *)
C14_OneToThreeLookupsOrFourOnFallback ==
    /\ [](\A p \in Procs :
            Walked(p)
            => /\ Len(proc[p].lookups) >= 1
               /\ Len(proc[p].lookups) <= 4
               /\ Len(proc[p].lookups) = 4
                  => (proc[p].op = "build" /\ FallbackTaken(p)))
    /\ OneAfterAnother

\* C14 witness: a resolveForBuild call returned after four lookups
C14_Witness ==
    \E p \in Procs :
       /\ Returned(p) /\ proc[p].op = "build" /\ ~proc[p].hit
       /\ Len(proc[p].lookups) = 4 /\ FallbackTaken(p)

---------------------------------------------------------------------------
\* this step is the call of p continuing on a lookup that failed in
\* transport: the fetch threw, or the response is an error other than 404
HandlesTransportFailure(p) ==
    /\ Handles(p)
    /\ \/ proc[p].resp.rejected
       \/ ~proc[p].resp.ok /\ proc[p].resp.status # 404

(* C15: when a lookup fails for transport reasons the call fails in that
   step and the lookup is not retried (no further lookup of any kind is
   issued, nothing is cached).  The failure handed to the caller is the very
   error the fetch threw, or, for an error response other than 404, a failure
   whose message carries the status and status text of that response; in
   both cases it is none of the not-found failures. *)
C15_TransportFailurePropagates ==
    [][\A p \in Procs :
          HandlesTransportFailure(p)
          => (/\ FailsWithoutLookup(p)
              /\ cache' = cache
              /\ proc'[p].outcome.value =
                    IF proc[p].resp.rejected THEN proc[p].resp.error
                    ELSE [message |->
                            "Failed to get " \o KindAt(proc[p].pc) \o " '"
                            \o proc[p].req.name \o "': "
                            \o ToString(proc[p].resp.status) \o " "
                            \o proc[p].resp.statusText]
              /\ HopsNamedBy(proc'[p].outcome.value) = {})]_vars

\* C15 witness: the project declares no buildPlaneRef, the BuildPlane
\* "default" lookup was answered 500, and the call failed with that status
\* after these two lookups
C15_Witness ==
    \E p \in Procs :
       /\ Threw(p) /\ proc[p].faulted
       /\ proc[p].lookups =
             <<Req("projects", "org-1", "shop"),
               Req("buildplanes", "org-1", "default")>>
       /\ backing[Req("projects", "org-1", "shop")].buildPlaneRef = NoRef
       /\ proc[p].outcome.value =
             [message |->
                "Failed to get BuildPlane 'default': 500 Internal Server Error"]

---------------------------------------------------------------------------
\* the keys "env:<namespace>/<environment>" and "build:<namespace>/<project>"
CacheKeys ==
    {"env:" \o ns \o "/" \o e : ns \in Namespaces, e \in EnvNames}
    \cup {"build:" \o ns \o "/" \o pj : ns \in Namespaces, pj \in ProjectNames}
\* a URL pair: the two optional URL fields and nothing else
IsUrlPair(v) ==
    /\ DOMAIN v = {"observerUrl", "rcaAgentUrl"}
    /\ v.observerUrl \in {Undefined, "https://observer.example.com"}
    /\ v.rcaAgentUrl \in {Undefined, "https://rca.example.com"}
\* this step is a call for key k returning the result of its walk
ReturnsWalked(p, k) ==
    /\ proc[p].pc \notin {"idle", "done"}
    /\ proc'[p].pc = "done"
    /\ ~proc'[p].outcome.threw
    /\ proc'[p].cacheKey = k

(* C16: in every reachable state each cache entry is keyed
   "env:<namespace>/<environment>" or "build:<namespace>/<project>" and
   holds, with its expiry time, exactly the URL pair that a successful
   resolution for that key returned: an entry is written only in the step in
   which a call for its key returns, with the value returned.  Nothing else
   is kept between calls: a completed call holds no request, response or
   reference, and no failure is in the cache. *)
C16_CacheHoldsOnlyResults ==
    /\ [](/\ \A k \in DOMAIN cache :
               /\ k \in CacheKeys
               /\ DOMAIN cache[k] = {"result", "expiresAt"}
               /\ IsUrlPair(cache[k].result)
               /\ cache[k].expiresAt \in Nat
           /\ \A p \in Procs :
               proc[p].pc \in {"idle", "done"}
               => (/\ proc[p].req = None /\ proc[p].resp = None
                   /\ proc[p].buildPlaneRef = None))
    /\ [][\A k \in DOMAIN cache' :
            (k \notin DOMAIN cache \/ cache'[k] # cache[k])
            => \E p \in Procs :
                  /\ ReturnsWalked(p, k)
                  /\ cache'[k].result = proc'[p].outcome.value]_vars

\* C16 witness: a resolveForBuild call has returned and the cache holds its
\* URL pair under "build:org-1/shop"
C16_Witness ==
    \E p \in Procs :
       /\ Returned(p) /\ ~proc[p].hit
       /\ DOMAIN cache = {"build:org-1/shop"}
       /\ cache["build:org-1/shop"].result = proc[p].outcome.value
       /\ proc[p].outcome.value =
             [observerUrl |-> "https://observer.example.com",
              rcaAgentUrl |-> "https://rca.example.com"]

---------------------------------------------------------------------------
\* the cache key of a call, from its arguments
KeyOf(pr) ==
    (IF pr.op = "env" THEN "env:" ELSE "build:")
       \o pr.namespaceName \o "/" \o pr.name
\* while another call waits on a lookup, caller q can take its next step: its
\* lookup can be answered, its continuation can run, it can make a call
NotBlocked(q) ==
    /\ InFlight(q) => ENABLED RespondPlain(q)
    /\ (proc[q].pc \notin {"idle", "done"} /\ proc[q].resp # None)
       => ENABLED Continue(q)
    /\ (proc[q].pc \in {"idle", "done"} /\ calls < MaxCalls /\ InOrder(q))
       => (/\ ENABLED ConcurrentResolveForEnvironment(q)
           \/ ENABLED ConcurrentResolveForBuild(q))

(* C17: under any interleaving of concurrent resolutions, a step of a call
   reads, evicts and writes only the cache entry of the call's own key (a
   call answered from the cache returns the entry of its key; the entries of
   all other keys are left as they were), and a resolution that is waiting on
   a lookup never prevents another caller's next step. *)
C17_KeysIsolatedCallsNotBlocked ==
    /\ [](\A p, q \in Procs : (p # q /\ InFlight(p)) => NotBlocked(q))
    /\ [][\A p \in Procs :
            StepOfCall(p)
            => (/\ proc'[p].cacheKey = KeyOf(proc'[p])
                /\ OtherEntries(cache', KeyOf(proc'[p]))
                      = OtherEntries(cache, KeyOf(proc'[p]))
                /\ (Enters(p) /\ proc'[p].hit)
                   => proc'[p].outcome.value = cache[KeyOf(proc'[p])].result
                /\ (Enters(p) /\ proc'[p].evicted)
                   => (KeyOf(proc'[p]) \in DOMAIN cache
                       /\ DOMAIN cache' = (DOMAIN cache) \ {KeyOf(proc'[p])}))]_vars

\* C17 witness: a call found the entry of its key expired, evicted it and is
\* waiting on a lookup, while a call for another key is waiting on a lookup
C17_Witness ==
    \E p, q \in Procs :
       /\ InFlight(p) /\ proc[p].evicted
       /\ InFlight(q) /\ proc[q].cacheKey # proc[p].cacheKey
       /\ Len(proc[q].lookups) >= 2

---------------------------------------------------------------------------
\* the call of p is under way
Resolving(p) == proc[p].pc \notin {"idle", "done"}

(* C18: if every lookup a resolution issues eventually completes, with a
   resource, an error response or a rejection (a timeout, a cancellation),
   the resolution eventually completes, with a result or a failure; and a
   lookup that ends in a rejection makes the call fail in the step that
   resumes it, with that rejection: it never succeeds and never goes on. *)
C18_ResolutionCompletes ==
    /\ \A p \in Procs : Resolving(p) ~> Done(p)
    /\ [][\A p \in Procs :
            /\ (Handles(p) /\ proc[p].resp.rejected)
               => (/\ FailsWithoutLookup(p)
                   /\ proc'[p].outcome.value = proc[p].resp.error)
            /\ (Resolving(p) /\ proc'[p].pc = "done" /\ ~proc'[p].outcome.threw)
               => (~proc[p].resp.rejected /\ proc[p].resp.ok)]_vars

\* C18 witness: the second lookup of a call was rejected and the call failed
\* with that rejection
C18_Witness ==
    \E p \in Procs :
       /\ Threw(p) /\ proc[p].faulted /\ Len(proc[p].lookups) = 2
       /\ proc[p].outcome.value = [message |-> "fetch failed"]

---------------------------------------------------------------------------
\* the request of p is one of a fetch method, and the resolver call made
\* for it returned a result whose observerUrl is absent
ResolvedWithoutObserver(p) ==
    /\ svc[p].service # Undefined
    /\ svc[p].subject.method \in FetchMethods
    /\ svc[p].resolverCalls = 1
    /\ Returned(p)
    /\ proc[p].outcome.value.observerUrl = Undefined

\* the request of p ended with ObservabilityNotConfiguredError
RaisedNotConfigured(sr) ==
    /\ sr.pc = "done"
    /\ sr.outcome.threw
    /\ sr.outcome.value =
          ObservabilityNotConfiguredError(sr.subject.method,
              sr.subject.namespaceName, sr.subject.componentName)

(* C19: every log, metric, trace and build-log method that receives a
   resolution result whose observerUrl is absent raises
   ObservabilityNotConfiguredError in the step that resumes it: it creates
   no observer client, sends no observer request and does not call the
   resolver again for that request; no later step of the request changes
   that. *)
C19_AbsentObserverUrlRaisesNotConfigured ==
    /\ [](\A p \in Procs :
            (ResolvedWithoutObserver(p) /\ svc[p].pc # "resolving")
            => (/\ RaisedNotConfigured(svc[p])
                /\ svc[p].clients = 0
                /\ svc[p].sent = <<>>))
    /\ [][\A p \in Procs :
            (/\ ResolvedWithoutObserver(p)
             /\ svc[p].pc = "resolving"
             /\ svc'[p] # svc[p])
            => (/\ RaisedNotConfigured(svc'[p])
                /\ svc'[p].clients = 0
                /\ svc'[p].sent = <<>>
                /\ svc'[p].resolverCalls = 1
                /\ calls' = calls
                /\ proc' = proc
                /\ cache' = cache)]_vars

\* C19 witness: a build-log request ended with the error after a resolution
\* that walked the chain to an observability plane without observerURL
C19_Witness ==
    \E p \in Procs :
       /\ ResolvedWithoutObserver(p)
       /\ svc[p].subject.method = "fetchBuildLogs"
       /\ RaisedNotConfigured(svc[p])
       /\ ~proc[p].hit
       /\ svc[p].clients = 0 /\ svc[p].sent = <<>>

---------------------------------------------------------------------------
\* the request of p is a GET /resolve-urls that has been answered, and the
\* chain of its namespace and environment resolved to an observability
\* plane that declares no observerURL
AnsweredWithoutObserver(p) ==
    /\ svc[p].pc = "done"
    /\ svc[p].subject.method = "resolveUrls"
    /\ svc[p].resolverCalls = 1
    /\ Returned(p)
    /\ proc[p].outcome.value.observerUrl = Undefined

(* C20: GET /resolve-urls responds 404 when observability is not configured
   for the requested namespace and environment, that is, when the chain
   resolves to an observability plane that declares no observerURL. *)
C20_NotConfiguredIs404 ==
    \A p \in Procs :
       AnsweredWithoutObserver(p) => svc[p].outcome.value.status = 404

---------------------------------------------------------------------------
\* the handler of the route has answered the request of p after the service
\* call it made settled
AnsweredAfterCall(p, route) ==
    /\ svc[p].pc = "done"
    /\ "route" \in DOMAIN svc[p].subject
    /\ svc[p].subject.route = route
    /\ svc[p].invoked # <<>>

(* C21: the /resolve-urls handler maps the outcome of
   observabilityService.resolveUrls to exactly one response: 200 with the
   URLs as returned on success, 404 with the error's message when it raises
   ObservabilityNotConfiguredError, and 500 with the error's message for
   any other failure (a fixed text when what was thrown is not an Error);
   the service is called once. *)
C21_OutcomeMapsToOneResponse ==
    \A p \in Procs :
       AnsweredAfterCall(p, "/resolve-urls")
       => LET o == svc[p].subject.settled
              r == svc[p].outcome.value
          IN  /\ svc[p].invoked = <<"resolveUrls">>
              /\ ~svc[p].outcome.threw
              /\ ~o.threw => r = [status |-> 200, body |-> o.value]
              /\ (o.threw /\ IsNotConfiguredError(o.value))
                 => r = [status |-> 404, body |-> [error |-> o.value.message]]
              /\ (o.threw /\ ~IsNotConfiguredError(o.value))
                 => /\ r.status = 500
                    /\ "message" \in DOMAIN o.value
                       => r.body = [error |-> o.value.message]
                    /\ "message" \notin DOMAIN o.value
                       => r.body = [error |-> "Failed to resolve observer URLs"]

\* C21 witness: resolveUrls raised ObservabilityNotConfiguredError and the
\* handler answered 404 with its message
C21_Witness ==
    \E p \in Procs :
       /\ AnsweredAfterCall(p, "/resolve-urls")
       /\ svc[p].subject.settled.threw
       /\ IsNotConfiguredError(svc[p].subject.settled.value)
       /\ svc[p].outcome.value =
             [status |-> 404,
              body |-> [error |-> "Observability is not configured for component org-1"]]

---------------------------------------------------------------------------
\* the request of p was made to the route (of the router by itself)
RequestTo(p, route) ==
    /\ svc[p].pc # "idle"
    /\ "route" \in DOMAIN svc[p].subject
    /\ svc[p].subject.route = route
\* ... without user credentials, to a router with authEnabled = true
Unauthenticated(p) ==
    svc[p].subject.authEnabled /\ ~svc[p].subject.hasCredentials
\* ... without a parameter the route requires
Incomplete(p) ==
    \E f \in DOMAIN svc[p].subject.query : svc[p].subject.query[f] = Undefined

(* C22: with authEnabled = true, a request to GET /resolve-urls that
   carries no user credentials is rejected (401) before parameter
   validation and before observabilityService.resolveUrls is called: it is
   answered 401 in its first step, whether or not its parameters are
   complete, and resolveUrls is never invoked for it. *)
C22_UnauthenticatedRejectedFirst ==
    \A p \in Procs :
       (RequestTo(p, "/resolve-urls") /\ Unauthenticated(p))
       => /\ svc[p].pc = "done"
          /\ svc[p].outcome.value.status = 401
          /\ svc[p].invoked = <<>>

\* C22 witness: an unauthenticated request that also lacks environmentName
\* was answered 401
C22_Witness ==
    \E p \in Procs :
       /\ RequestTo(p, "/resolve-urls") /\ Unauthenticated(p)
       /\ svc[p].subject.query.namespaceName = "org-1"
       /\ svc[p].subject.query.environmentName = Undefined
       /\ svc[p].pc = "done"
       /\ svc[p].outcome.value.status = 401

---------------------------------------------------------------------------
\* the request of p was answered 400 with the text, without a service call
Refused(p, text) ==
    /\ svc[p].pc = "done"
    /\ svc[p].outcome.value = [status |-> 400, body |-> [error |-> text]]
    /\ svc[p].invoked = <<>>

(* C23, as stated: GET /resolve-urls with namespaceName or environmentName
   missing responds 400 with error "namespaceName and environmentName are
   required" and never calls observabilityService.resolveUrls; GET
   /environments with namespace missing responds 400 "Namespace is
   required" and never calls fetchEnvironmentsByNamespace. *)
C23_MissingParametersRefused ==
    \A p \in Procs :
       /\ (RequestTo(p, "/resolve-urls") /\ Incomplete(p))
          => Refused(p, "namespaceName and environmentName are required")
       /\ (RequestTo(p, "/environments") /\ Incomplete(p))
          => Refused(p, "Namespace is required")

(* C23, amended: the same for a request that is not rejected for lack of
   credentials (authEnabled is false, or the request carries user
   credentials); a request that is rejected for lack of credentials is
   answered 401 instead, and calls no service method either. *)
C23_MissingParametersRefusedOnceAdmitted ==
    \A p \in Procs :
       /\ (RequestTo(p, "/resolve-urls") /\ Incomplete(p) /\ ~Unauthenticated(p))
          => Refused(p, "namespaceName and environmentName are required")
       /\ (RequestTo(p, "/environments") /\ Incomplete(p) /\ ~Unauthenticated(p))
          => Refused(p, "Namespace is required")
       /\ ((RequestTo(p, "/resolve-urls") \/ RequestTo(p, "/environments"))
           /\ Incomplete(p))
          => svc[p].invoked = <<>>

\* C23 witness: an authenticated GET /environments without namespace was
\* answered 400 while a GET /resolve-urls without namespaceName was too
C23_Witness ==
    \E p, q \in Procs :
       /\ RequestTo(p, "/environments") /\ Incomplete(p)
       /\ svc[p].subject.authEnabled /\ svc[p].subject.hasCredentials
       /\ Refused(p, "Namespace is required")
       /\ RequestTo(q, "/resolve-urls")
       /\ svc[q].subject.query.namespaceName = Undefined
       /\ ~Unauthenticated(q)
       /\ Refused(q, "namespaceName and environmentName are required")

---------------------------------------------------------------------------
\* the value of a header, or None
HeaderOf(headers, n) == IF n \in DOMAIN headers THEN headers[n] ELSE None
\* the headers carry the token somewhere
Carries(headers, token) ==
    \E n \in DOMAIN headers : headers[n] \in {token, "Bearer " \o token}
\* the provider was asked during the call
Asked(fc, provider) == \E i \in 1..Len(fc.asked) : fc.asked[i] = provider

(* C24: OpenChoreoFetchApi.fetch keeps its two modes apart.  When the
   request carries the x-openchoreo-direct header, the outgoing request
   never carries that header and never carries the Backstage token (which
   is not even asked for), and the IDP token is placed in Authorization
   only if auth is enabled and a token is obtained, and nowhere else.
   Otherwise the Backstage token, when there is one, goes in Authorization
   and the IDP token only in x-openchoreo-token.  With auth disabled no IDP
   token is requested in either mode.  Headers the call does not set go
   out as the caller gave them. *)
C24_ModesKeptApart ==
    \A p \in Procs :
       LET fc == app.fetch[p]
           out == fc.outgoing
           direct == DIRECT_MODE_HEADER \in DOMAIN fc.init
           gotIdp == AuthEnabled /\ fc.idpToken = IdpToken
           gotBackstage == fc.backstageToken = BackstageToken
       IN  /\ ~AuthEnabled => ~Asked(fc, "getAccessToken")
           /\ direct => ~Asked(fc, "getCredentials")
           /\ (fc.pc = "sent" /\ direct)
              => /\ DIRECT_MODE_HEADER \notin DOMAIN out
                 /\ ~Carries(out, BackstageToken)
                 /\ HeaderOf(out, "authorization") =
                       IF gotIdp THEN "Bearer " \o IdpToken
                       ELSE HeaderOf(fc.init, "authorization")
                 /\ HeaderOf(out, OPENCHOREO_TOKEN_HEADER) =
                       HeaderOf(fc.init, OPENCHOREO_TOKEN_HEADER)
           /\ (fc.pc = "sent" /\ ~direct)
              => /\ DIRECT_MODE_HEADER \notin DOMAIN out
                 /\ HeaderOf(out, "authorization") =
                       IF gotBackstage THEN "Bearer " \o BackstageToken
                       ELSE HeaderOf(fc.init, "authorization")
                 /\ HeaderOf(out, OPENCHOREO_TOKEN_HEADER) =
                       IF gotIdp THEN IdpToken
                       ELSE HeaderOf(fc.init, OPENCHOREO_TOKEN_HEADER)

\* C24 witness: a direct call whose caller had set Authorization went out
\* with the IDP token there instead, and without the signal header
C24_Witness ==
    \E p \in Procs :
       LET fc == app.fetch[p]
       IN  /\ fc.pc = "sent"
           /\ fc.init = InitHeaderValues
           /\ fc.asked = <<"getAccessToken">>
           /\ fc.outgoing = [n \in {"authorization", OPENCHOREO_TOKEN_HEADER} |->
                               IF n = "authorization" THEN "Bearer idp-token"
                               ELSE "caller"]

---------------------------------------------------------------------------
(* C25: a successful result is returned to a caller only on the strength of
   lookups the backing API accepted under that caller's own credential: a
   call made with a credential the backing API rejects never returns URLs,
   whether or not they were resolved and cached under another credential. *)
C25_ResultOnlyUnderOwnCredential ==
    \A p \in Procs :
       Returned(p) => proc[p].token \notin RejectedTokens

---------------------------------------------------------------------------
\* this step ends the call of caller p, which walked the chain, with a result
Succeeds(p) ==
    /\ proc[p].pc \notin {"idle", "done"}
    /\ proc'[p].pc = "done"
    /\ ~proc'[p].outcome.threw

(* C26: concurrent resolutions for the same key that miss the cache are not
   coalesced.  A call that finds no live entry for its key starts its own
   walk, whoever else is walking for that key, and a call that walked and
   succeeded made the full lookup sequence itself.  Every walk that succeeds
   overwrites the entry of its key with its own result, expiring one TTL
   after its own completion, and nothing else writes an entry: so once both
   have succeeded the entry holds the result of the resolution that
   completed last, even if it started first and read older backing state. *)
C26_NotCoalescedLastCompletionWins ==
    /\ [](\A p \in Procs :
            (Returned(p) /\ ~proc[p].hit)
            => (/\ Len(proc[p].lookups) = 3
                /\ proc[p].lookups[1] =
                      Req("environments", proc[p].namespaceName, proc[p].name)))
    /\ [][\A p \in Procs :
            /\ (Enters(p) /\ ~CacheHit(cache, KeyOf(proc'[p]), now))
               => WalksAfter(p)
            /\ Succeeds(p)
               => cache' = MapSet(cache, proc[p].cacheKey,
                                  [result |-> proc'[p].outcome.value,
                                   expiresAt |-> now + cacheTtlMs])]_vars
    /\ [][cache' # cache
          => \E p \in Procs : \/ Succeeds(p)
                              \/ Enters(p) /\ proc'[p].evicted]_vars

\* C26 witness: two calls for one key both missed and both succeeded with
\* different results; the one that started first completed last and the
\* entry holds its result, read before the plane was rewritten, while the
\* plane holds what the other call read
C26_Witness ==
    \E p, q \in Procs :
       /\ Returned(p) /\ ~proc[p].hit /\ Len(proc[p].lookups) = 3
       /\ Returned(q) /\ ~proc[q].hit /\ Len(proc[q].lookups) = 3
       /\ proc[p].cacheKey = proc[q].cacheKey
       /\ proc[p].seq < proc[q].seq
       /\ proc[p].outcome.value # proc[q].outcome.value
       /\ epoch = 1
       /\ proc[p].lookups[3] = proc[q].lookups[3]
       /\ proc[p].lookups[3] \in DOMAIN backing
       /\ UrlsResult(Answer(backing[proc[p].lookups[3]])) = proc[q].outcome.value
       /\ proc[p].cacheKey \in DOMAIN cache
       /\ cache[proc[p].cacheKey].result = proc[p].outcome.value

---------------------------------------------------------------------------
\* the cache holds a live entry for the key, with the "not configured" result
HoldsNotConfigured(key) ==
    CacheHit(cache, key, now) /\ cache[key].result = NotConfigured

(* C27: a resolution that ends in the "not configured" result (both URLs
   absent) is cached like any other success, for one TTL from its
   completion; a call for the same key made while that entry lives returns
   the same empty result with zero lookups, whatever the observability
   plane declares by then. *)
C27_NotConfiguredIsCached ==
    [][\A p \in Procs :
          /\ (Succeeds(p) /\ proc'[p].outcome.value = NotConfigured)
             => (/\ proc[p].cacheKey \in DOMAIN cache'
                 /\ cache'[proc[p].cacheKey] =
                       [result |-> NotConfigured,
                        expiresAt |-> now + cacheTtlMs])
          /\ (Enters(p) /\ HoldsNotConfigured(KeyOf(proc'[p])))
             => (/\ ServedFromCacheAfter(p)
                 /\ proc'[p].outcome.value = NotConfigured
                 /\ cache' = cache)]_vars

\* C27 witness: a call was answered "not configured" from the cache, with no
\* lookup, after the plane the entry was read from was given an observerURL
C27_Witness ==
    \E p \in Procs :
       /\ Returned(p) /\ proc[p].hit /\ proc[p].lookups = <<>>
       /\ proc[p].outcome.value = NotConfigured
       /\ epoch = 1
       /\ \E r \in DOMAIN backing :
             /\ r.coll \in {"observabilityplanes", "clusterobservabilityplanes"}
             /\ backing[r].observerURL = "https://observer.example.com"

---------------------------------------------------------------------------
\* the reference p reads is present, of the kind, and carries no name
Nameless(p, kind) ==
    /\ RefRead(p) # NoRef
    /\ RefRead(p).kind = kind
    /\ RefRead(p).name = Undefined

(* C28: only a wholly absent reference is defaulted.  A dataPlaneRef,
   buildPlaneRef or observabilityPlaneRef that is present but carries no
   kind makes the resolution fail with the unsupported-kind error, whereas
   a reference of the namespace-scoped kind that carries no name is looked
   up under the name "default" (and, for buildPlaneRef, without the cluster
   fallback when that plane is not found). *)
C28_OnlyAbsentRefDefaulted ==
    [][\A p \in Procs :
          LET ns == proc[p].namespaceName
              hops == RootHops \cup NamespacedPlaneHops \cup ClusterPlaneHops
          IN  /\ (/\ HandlesOk(p) /\ proc[p].pc \in hops
                  /\ RefRead(p) # NoRef /\ RefRead(p).kind = Undefined)
                 => (/\ FailsWithoutLookup(p)
                     /\ proc'[p].outcome.value =
                          [message |-> "Unsupported " \o RefFieldAt(proc[p].pc)
                                       \o " kind 'undefined'"])
              /\ (/\ HandlesOk(p) /\ proc[p].pc = "environment"
                  /\ Nameless(p, "DataPlane"))
                 => Looks(p, "dataplane", Req("dataplanes", ns, "default"))
              /\ (/\ HandlesOk(p) /\ proc[p].pc = "project"
                  /\ Nameless(p, "BuildPlane"))
                 => Looks(p, "buildplane", Req("buildplanes", ns, "default"))
              /\ (/\ HandlesNotFound(p) /\ proc[p].pc = "buildplane"
                  /\ proc[p].buildPlaneRef # NoRef)
                 => FailsWithoutLookup(p)
              /\ (/\ HandlesOk(p)
                  /\ proc[p].pc \in NamespacedPlaneHops \cup ClusterPlaneHops
                  /\ Nameless(p, "ObservabilityPlane"))
                 => Looks(p, "observabilityplane",
                          Req("observabilityplanes", ns, "default"))]_vars

---------------------------------------------------------------------------
\* the request of p is a getWorkflowRunLogs
WorkflowLogs(p) ==
    /\ svc[p].service = "GenericWorkflowService"
    /\ svc[p].subject.method = "getWorkflowRunLogs"
\* the run carries a condition that makes its status terminal
Terminal(run) ==
    \E c \in run.conditions :
       /\ c.status = "True"
       /\ c.type \in {"WorkloadUpdated", "WorkflowFailed", "WorkflowSucceeded"}

(* C29: GenericWorkflowService.getWorkflowRunLogs calls the resolver only
   after the live-logs request yielded no entries and the run's derived
   status is terminal (Completed, Failed or Succeeded); it then uses
   resolveForBuild when the run has a project label and
   resolveForEnvironment(namespace, "development") otherwise, once, with
   the caller's token; and a resolver failure or an absent observerUrl
   yields an empty log list with totalCount 0 instead of an error, with no
   observer client created and no observer request sent. *)
C29_WorkflowLogsFallBackQuietly ==
    /\ [](\A p \in Procs :
            (WorkflowLogs(p) /\ svc[p].resolverCalls > 0)
            => LET sub == svc[p].subject
               IN  /\ svc[p].resolverCalls = 1
                   /\ sub.live \in {"empty", "error"}
                   /\ sub.run \in Runs /\ Terminal(sub.run)
                   /\ proc[p].namespaceName = sub.namespaceName
                   /\ proc[p].token = sub.token
                   /\ IF sub.run.project # Undefined
                      THEN proc[p].op = "build" /\ proc[p].name = sub.run.project
                      ELSE proc[p].op = "env" /\ proc[p].name = "development")
    /\ [][\A p \in Procs :
            /\ (WorkflowLogs(p) /\ calls' # calls)
               => (svc[p].pc = "run" /\ svc'[p].resolverCalls = 1)
            /\ (/\ WorkflowLogs(p) /\ svc[p].pc = "resolving"
                /\ svc'[p] # svc[p]
                /\ \/ Threw(p)
                   \/ Returned(p) /\ proc[p].outcome.value.observerUrl = Undefined)
               => (/\ svc'[p].pc = "done"
                   /\ svc'[p].outcome =
                         [threw |-> FALSE,
                          value |-> [logs |-> <<>>, totalCount |-> 0]]
                   /\ svc'[p].clients = 0
                   /\ svc'[p].sent = <<>>
                   /\ calls' = calls)]_vars

\* C29 witness: a run that failed while marked running, without a project
\* label, had no live logs; the resolver was asked for environment
\* "development", returned no observerUrl, and the call ended with no logs
C29_Witness ==
    \E p \in Procs :
       /\ WorkflowLogs(p) /\ svc[p].pc = "done"
       /\ svc[p].subject.live = "empty"
       /\ svc[p].subject.run =
             [conditions |-> {Condition("WorkflowFailed", "True"),
                              Condition("WorkflowRunning", "True")},
              project |-> Undefined]
       /\ svc[p].resolverCalls = 1
       /\ Returned(p) /\ ~proc[p].hit
       /\ proc[p].lookups[1] = Req("environments", "org-1", "development")
       /\ proc[p].outcome.value.observerUrl = Undefined
       /\ svc[p].outcome = [threw |-> FALSE, value |-> NoLogs]
       /\ svc[p].sent = <<>>

====
